---- MODULE Spec2Model ----
(***************************************************************************)
(* A model of subvibe: the recovering SRT and WebVTT parsers, the format   *)
(* detector, the two generators and build, as they are written in src/.    *)
(*                                                                         *)
(* Text is modelled at the level the code inspects it.  A document is a    *)
(* sequence of physical lines.  A line is a record naming its shape: a     *)
(* blank line, a digits-only line, a timing line "a --> b words", a line   *)
(* holding a bare timestamp, a text line (words, with an optional voice    *)
(* span), and the WebVTT keywords.  A timestamp is kept as its digit       *)
(* fields, each with its value and its width in digits, together with the  *)
(* decimal separator, so that formatting and parsing are computed from the *)
(* digits as the code computes them from the characters.                   *)
(***************************************************************************)
EXTENDS Integers, Sequences, FiniteSets, TLC

\* ------------------------------------------------------------------ bounds

\* The number of cue blocks of an SRT-shaped input document.
MaxSrtBlocks == 3

\* The number of blocks after the header of a WEBVTT-shaped input document.
MaxVttBlocks == 2

\* The number of cue blocks of an SRT-shaped input document that draws on the
\* further blocks.
MaxFurtherBlocks == 2

\* The number of parse/generate rounds a pipeline runs.
MaxRounds == 3

\* The largest total parseTimestamp of the VTT parser accepts (99:59:59.999).
UnusualLimit == 359999999

\* The bound of parseSRT's unusual-timestamp warning (24 hours).
DayMs == 86400000

\* ---------------------------------------------------------------- lexemes

\* JavaScript's NaN, and a thrown Error of the VTT timestamp functions.
NaN == -1

\* A run of w decimal digits whose value is v ("05" is NL(5, 2)).
NL(v, w) == [v |-> v, w |-> w]

\* The number of digits of String(n).
Digits(n) ==
  IF n < 10 THEN 1 ELSE IF n < 100 THEN 2 ELSE IF n < 1000 THEN 3
  ELSE IF n < 10000 THEN 4 ELSE IF n < 100000 THEN 5 ELSE 6

Max(a, b) == IF a > b THEN a ELSE b

Pow10(k) == IF k = 0 THEN 1 ELSE IF k = 1 THEN 10 ELSE IF k = 2 THEN 100 ELSE 1000

\* String(n).padStart(2, '0') and String(n).padStart(3, '0').
PadStart2(n) == NL(n, Max(2, Digits(n)))
PadStart3(n) == NL(n, Max(3, Digits(n)))

\* s.padStart(2, '0') of a digit run.
PadStartLex2(x) == NL(x.v, Max(2, x.w))

\* ms.padEnd(3, '0') of a digit run: "5" becomes "500".
PadEnd3(x) == IF x.w < 3 THEN NL(x.v * Pow10(3 - x.w), 3) ELSE x

\* A timestamp token: colon-separated digit fields f, then the decimal
\* separator d ("," or "." or "" when there is none) and the fraction ms.
Clock(f, d, ms) == [k |-> "clock", f |-> f, d |-> d, ms |-> ms]

\* A token with no digits in it, such as "invalid".
Junk == [k |-> "junk", f |-> <<>>, d |-> "", ms |-> NL(0, 0)]

\* A word of a line: "val", or "key:val" / "key=val" when key is not empty.
Word(key, val) == [key |-> key, val |-> val]

\* The empty string: a side of a timestamp line with nothing on it.
Empty == [k |-> "empty", f |-> <<>>, d |-> "", ms |-> NL(0, 0)]

NoToken == [k |-> "none", f |-> <<>>, d |-> "", ms |-> NL(0, 0)]

\* A physical line.  k is its shape; n the number of a digits-only line;
\* a, b the two timestamp tokens and x the words after the end token of a
\* timing line; x the words of a text line, vn and vb the speaker and the body
\* of a closed voice span "<v vn>vb</v>" that follows those words.
Line(k, n, a, b, x, vn, vb) ==
  [k |-> k, n |-> n, a |-> a, b |-> b, x |-> x, vn |-> vn, vb |-> vb]

Blank == Line("blank", 0, NoToken, NoToken, <<>>, "", <<>>)
Num(n) == Line("num", n, NoToken, NoToken, <<>>, "", <<>>)
Timing(a, b, x) == Line("timing", 0, a, b, x, "", <<>>)
Stamp(a) == Line("stamp", 0, a, NoToken, <<>>, "", <<>>)
Text(x) == Line("text", 0, NoToken, NoToken, x, "", <<>>)
Voiced(x, vn, vb) == Line("text", 0, NoToken, NoToken, x, vn, vb)
Keyword(k) == Line(k, 0, NoToken, NoToken, <<>>, "", <<>>)
KeyVal(key, val) == Line("keyval", 0, NoToken, NoToken, <<Word(key, val)>>, "", <<>>)

\* The line is empty after trim().
IsBlank(l) == l.k = "blank"

\* /^\d+$/ holds of the line.
IsDigits(l) == l.k = "num"

\* line.includes('-->').
HasArrow(l) == l.k = "timing"

\* --------------------------------------------------- core-utils: timestamps

\* parseInt(ms.padEnd(3, '0')).
PadMs(ms) == PadEnd3(ms).v

\* The time fields padded on the left with zeros to hours, minutes, seconds
\* (the first three when there are more), in seconds.
HmsSeconds(f) ==
  LET n == Len(f)
  IN IF n = 1 THEN f[1].v
     ELSE IF n = 2 THEN f[1].v * 60 + f[2].v
     ELSE f[1].v * 3600 + f[2].v * 60 + f[3].v

\* parseTimeString of the token t; trail says that words follow the token in
\* the string handed over (the end side of a timing line with trailing text).
parseTimeString(t, trail) ==
  IF t.k = "empty" /\ ~trail THEN 0
  ELSE IF t.k # "clock" THEN NaN
  ELSE IF ~trail /\ Len(t.f) = 1 /\ t.d = "."
    THEN t.f[1].v * 1000 + PadMs(t.ms)
  ELSE IF ~trail /\ Len(t.f) = 2 /\ t.f[1].w \in 1..2 /\ t.f[2].w = 2
          /\ t.d # "" /\ t.ms.w = 3
    THEN (t.f[1].v * 60 + t.f[2].v) * 1000 + t.ms.v
  ELSE IF t.d = ""
    THEN IF trail THEN NaN ELSE HmsSeconds(t.f) * 1000
  ELSE HmsSeconds(t.f) * 1000 + (IF trail THEN t.ms.v ELSE PadMs(t.ms))

\* A token in which one of hasTimestamp's patterns finds a match: two digit
\* runs joined by ":" or by ".".
TokenHasTimestamp(t) == t.k = "clock" /\ (Len(t.f) >= 2 \/ t.d = ".")

hasTimestamp(l) ==
  \/ l.k = "timing" /\ (TokenHasTimestamp(l.a) \/ TokenHasTimestamp(l.b))
  \/ l.k = "stamp" /\ TokenHasTimestamp(l.a)

Null == [start |-> -2, end |-> -2]

\* findTimestampRange: the line split at its separator; null when it has none.
findTimestampRange(l) ==
  IF l.k = "timing"
    THEN [start |-> parseTimeString(l.a, FALSE),
          end |-> parseTimeString(l.b, l.x # <<>>)]
    ELSE Null

\* ------------------------------------------------------------- formatting

\* srt/generator formatTimestamp: HH:MM:SS,mmm.
formatTimestamp(ms) ==
  Clock(<<PadStart2(ms \div 3600000), PadStart2((ms % 3600000) \div 60000),
          PadStart2((ms % 60000) \div 1000)>>, ",", PadStart3(ms % 1000))

\* A VTT formatter that writes the hours whatever they are.
formatVTTTimestampWithHours(ms) ==
  Clock(<<PadStart2(ms \div 3600000), PadStart2((ms % 3600000) \div 60000),
          PadStart2((ms % 60000) \div 1000)>>, ".", PadStart3(ms % 1000))

\* vtt/generator formatVTTTimestamp: MM:SS.mmm when the hours are zero.
formatVTTTimestamp(ms) ==
  IF ms \div 3600000 > 0
    THEN Clock(<<PadStart2(ms \div 3600000), PadStart2((ms % 3600000) \div 60000),
                 PadStart2((ms % 60000) \div 1000)>>, ".", PadStart3(ms % 1000))
    ELSE Clock(<<PadStart2((ms % 3600000) \div 60000),
                 PadStart2((ms % 60000) \div 1000)>>, ".", PadStart3(ms % 1000))

\* ------------------------------------------------- srt/parser: timestamps

\* srt/parser parseTimestamp: what parseTimeString reads when that is a
\* number; the strict pattern after it matches no token that parseTimeString
\* has not read, and NaN stands for the Error thrown then.
srtParseTimestamp(t) ==
  LET loose == parseTimeString(t, FALSE)
  IN IF loose # NaN THEN loose ELSE NaN

\* ------------------------------------------------- vtt/parser: timestamps

Zero2 == NL(0, 2)

\* h is "00" or "0".
IsZeroHour(h) == h.v = 0 /\ h.w \in 1..2

\* The token assembled by normalizeTimestamp's return statement.
Assemble(h, m, s, ms) ==
  Clock(<<PadStartLex2(h), PadStartLex2(m), PadStartLex2(s)>>, ".", PadEnd3(ms))

\* The token after the two replace calls: the first comma becomes a dot, and
\* a last field of three digits with no fraction becomes the fraction.
Replaced(t) ==
  IF Len(t.f) >= 2 /\ t.f[Len(t.f)].w = 3 /\ t.d = ""
    THEN Clock(SubSeq(t.f, 1, Len(t.f) - 1), ".", t.f[Len(t.f)])
    ELSE Clock(t.f, IF t.d = "," THEN "." ELSE t.d, t.ms)

\* The branches of normalizeTimestamp on the token after the replace calls.
NormalizeFields(t) ==
  IF Len(t.f) = 3 THEN
    IF t.d = "." THEN Assemble(t.f[1], t.f[2], t.f[3], t.ms)
    ELSE IF IsZeroHour(t.f[1]) /\ t.f[3].w = 2 /\ t.f[3].v > 59
      THEN Assemble(t.f[1], Zero2, t.f[2], PadEnd3(t.f[3]))
    ELSE IF IsZeroHour(t.f[1]) /\ t.f[3].w = 3 /\ t.f[2].v < 60
      THEN Assemble(t.f[1], Zero2, t.f[2], t.f[3])
    ELSE IF IsZeroHour(t.f[1]) /\ t.f[2].v < 60 /\ t.f[3].w = 2 /\ t.f[3].v # 0
      THEN Assemble(t.f[1], Zero2, t.f[2], PadEnd3(t.f[3]))
    ELSE IF t.f[3].w = 3 THEN Assemble(t.f[1], t.f[2], Zero2, t.f[3])
    ELSE IF t.f[3].w <= 2 THEN Assemble(t.f[1], t.f[2], t.f[3], NL(0, 3))
    ELSE Assemble(t.f[1], t.f[2], Zero2, t.f[3])
  ELSE IF Len(t.f) = 2 THEN
    IF t.d = "." THEN Assemble(Zero2, t.f[1], t.f[2], t.ms)
    ELSE Assemble(Zero2, t.f[1], t.f[2], NL(0, 3))
  ELSE IF Len(t.f) = 1 THEN
    IF t.d = "." THEN Assemble(Zero2, Zero2, t.f[1], t.ms)
    ELSE Assemble(Zero2, Zero2, t.f[1], NL(0, 3))
  ELSE Assemble(Zero2, Zero2, Zero2, NL(0, 3))

\* vtt/parser normalizeTimestamp, on a clock token.
normalizeTimestamp(t0) ==
  IF t0.k # "clock" THEN t0 ELSE NormalizeFields(Replaced(t0))

\* The total of the normalized token t when parseTimestamp's pattern matches
\* it, NaN for the Error thrown when it does not.
MatchedTotal(t) ==
  IF t.k = "clock" /\ Len(t.f) = 3 /\ t.f[1].w = 2 /\ t.f[2].w = 2
     /\ t.f[3].w = 2 /\ t.d = "." /\ t.ms.w = 3
    THEN t.f[1].v * 3600000 + t.f[2].v * 60000 + t.f[3].v * 1000 + t.ms.v
    ELSE NaN

\* The sanity check of parseTimestamp on the total.
CheckedTotal(totalMs) == IF totalMs > UnusualLimit THEN NaN ELSE totalMs

\* vtt/parser parseTimestamp: NaN stands for the Error it throws.
parseTimestamp(t0) == CheckedTotal(MatchedTotal(normalizeTimestamp(t0)))

\* vtt/parser parseVTTTimestamp: NaN stands for the Error it throws.
parseVTTTimestamp(t) ==
  IF t.k # "clock" THEN NaN
  ELSE IF Len(t.f) = 1
    THEN t.f[1].v * 1000 + (IF t.d = "." THEN PadMs(t.ms) ELSE 0)
  ELSE parseTimestamp(normalizeTimestamp(t))

\* ------------------------------------------------- percentage timestamps

\* "p%", p the number parseFloat reads from it.
Percent(p) == [k |-> "percent", v |-> p]

\* A JavaScript number is a double: a mantissa of 53 bits times a power of
\* two.  The mantissa is written as its digits in base 2^15, the lowest
\* first, and the empty sequence is zero.
MantissaBits == 52 + 1
LimbBase == 2 ^ 15
Double(m, e) == [m |-> m, e |-> e]

\* n without its leading zero digits.
RECURSIVE Trim(_)
Trim(n) == IF n # <<>> /\ n[Len(n)] = 0 THEN Trim(SubSeq(n, 1, Len(n) - 1)) ELSE n

\* n * c + carry, for c and carry below the base.
RECURSIVE MulCarry(_, _, _)
MulCarry(n, c, carry) ==
  IF n = <<>> THEN (IF carry = 0 THEN <<>> ELSE <<carry>>)
  ELSE <<(Head(n) * c + carry) % LimbBase>>
       \o MulCarry(Tail(n), c, (Head(n) * c + carry) \div LimbBase)

Times(n, c) == Trim(MulCarry(n, c, 0))

\* Quotient and remainder of n by a small d.
RECURSIVE DivRem(_, _)
DivRem(n, d) ==
  IF n = <<>> THEN [q |-> <<>>, r |-> 0]
  ELSE LET hi == DivRem(Tail(n), d)
       IN [q |-> <<(hi.r * LimbBase + Head(n)) \div d>> \o hi.q,
           r |-> (hi.r * LimbBase + Head(n)) % d]

RECURSIVE BitLength(_)
BitLength(v) == IF v = 0 THEN 0 ELSE 1 + BitLength(v \div 2)

\* The number of bits of n.
Bits(n) == IF n = <<>> THEN 0 ELSE 15 * (Len(n) - 1) + BitLength(n[Len(n)])

\* n + 1.
RECURSIVE Inc(_)
Inc(n) ==
  IF n = <<>> THEN <<1>>
  ELSE IF Head(n) = LimbBase - 1 THEN <<0>> \o Inc(Tail(n))
  ELSE <<Head(n) + 1>> \o Tail(n)

\* n * 2^e cut to the bits of a mantissa: the last bit cut off and whether a
\* bit before it was set.
RECURSIVE Shifted(_, _, _, _)
Shifted(n, e, roundBit, sticky) ==
  IF Bits(n) > MantissaBits
    THEN Shifted(Trim(DivRem(n, 2).q), e + 1, DivRem(n, 2).r,
                 sticky \/ roundBit = 1)
    ELSE [m |-> n, e |-> e, roundBit |-> roundBit, sticky |-> sticky]

\* The double nearest to n * 2^e (plus a little when sticky), ties to even.
RoundToDouble(n, e, sticky) ==
  LET s == Shifted(n, e, 0, sticky)
  IN IF s.roundBit = 1 /\ (s.sticky \/ s.m[1] % 2 = 1)
       THEN Double(Inc(s.m), s.e)
       ELSE Double(s.m, s.e)

\* The double x * (c * 2^k), for a small c.
DoubleTimes(x, c, k) == RoundToDouble(Times(x.m, c), x.e + k, FALSE)

\* The double p / 100, for a whole p from 0 to the base.
DoubleOver100(p) ==
  IF p = 0 THEN Double(<<>>, 0)
  ELSE RoundToDouble(Trim(DivRem(<<0, 0, 0, 0, p>>, 100).q), -60,
                     DivRem(<<0, 0, 0, 0, p>>, 100).r # 0)

\* A double below 2^30 as its whole milliseconds and whether a fraction of
\* a millisecond comes on top of them.
RECURSIVE Milliseconds(_, _, _)
Milliseconds(m, e, fraction) ==
  IF e < 0 /\ m # <<>>
    THEN Milliseconds(Trim(DivRem(m, 2).q), e + 1, fraction \/ DivRem(m, 2).r = 1)
    ELSE [whole |-> IF m = <<>> THEN 0
                     ELSE IF Len(m) = 1 THEN m[1] ELSE m[1] + m[2] * LimbBase,
          fraction |-> fraction]

\* isNaN(percent) || percent < 0 || percent > 100, for a percent that is a
\* number.
PercentFails(p) == p < 0 \/ p > 100

\* (percent / 100) * 24 * 3600000, each operation rounded as doubles are:
\* 24 is 3 * 2^3 and 3600000 is 28125 * 2^7.
PercentMilliseconds(p) ==
  LET x == DoubleTimes(DoubleTimes(DoubleOver100(p), 3, 3), 28125, 7)
  IN Milliseconds(x.m, x.e, FALSE)

\* ------------------------------------------------------------- documents

\* A diagnostic.  arg is the number a message interpolates besides its line
\* (the start time of "Invalid end time ... Using start time (..ms)").
Diag(line, message, severity, arg) ==
  [line |-> line, message |-> message, severity |-> severity, arg |-> arg]

NoLine == Keyword("none")

NoSettings ==
  [vertical |-> "", line |-> "", position |-> "", size |-> "", align |-> "",
   region |-> ""]

\* A cue.  identifier = NoLine, settings = NoSettings and voices = <<>> stand
\* for the absent optional fields; text is the sequence of its lines.
Cue(index, startTime, endTime, text, identifier, settings, voices) ==
  [index |-> index, startTime |-> startTime, endTime |-> endTime, text |-> text,
   identifier |-> identifier, settings |-> settings, voices |-> voices]

\* A parsed document.  errors = <<>> stands for errors: undefined.
Document(type, cues, errors, styles, regions) ==
  [type |-> type, cues |-> cues, errors |-> errors, styles |-> styles,
   regions |-> regions]

\* lines[i] of the code, whose indices start at 0.
At(L, i) == L[i + 1]

\* content.trim().split(/\r?\n/): the blank lines at both ends are gone, and
\* an all-blank content is the single empty line.
RECURSIVE DropLeadingBlank(_)
DropLeadingBlank(L) ==
  IF L # <<>> /\ IsBlank(Head(L)) THEN DropLeadingBlank(Tail(L)) ELSE L

RECURSIVE DropTrailingBlank(_)
DropTrailingBlank(L) ==
  IF L # <<>> /\ IsBlank(L[Len(L)])
    THEN DropTrailingBlank(SubSeq(L, 1, Len(L) - 1)) ELSE L

TrimSplit(content) ==
  LET t == DropTrailingBlank(DropLeadingBlank(content))
  IN IF t = <<>> THEN <<Blank>> ELSE t

\* -------------------------------------------------------------- srt/parser

\* The state of parseSRT's main loop.  stop is set by the loop's break
\* statements; threw by an exception that leaves the function.
SrtState(i, cues, errors, parsingCue, currentIndex, lastSeenIndex, failedParses, stop, threw) ==
  [i |-> i, cues |-> cues, errors |-> errors, parsingCue |-> parsingCue,
   currentIndex |-> currentIndex, lastSeenIndex |-> lastSeenIndex,
   failedParses |-> failedParses, stop |-> stop, threw |-> threw]

SrtInit == SrtState(0, <<>>, <<>>, FALSE, 0, 0, 0, FALSE, FALSE)

\* The first index from i on that is not a blank line, or the length.
RECURSIVE SkipBlank(_, _)
SkipBlank(L, i) ==
  IF i < Len(L) /\ IsBlank(At(L, i)) THEN SkipBlank(L, i + 1) ELSE i

\* The first index from i on that is a blank line, or the length.
RECURSIVE SkipToBlank(_, _)
SkipToBlank(L, i) ==
  IF i < Len(L) /\ ~IsBlank(At(L, i)) THEN SkipToBlank(L, i + 1) ELSE i

\* The first index from i on that is a digits-only line, or the length.
RECURSIVE SkipToDigits(_, _)
SkipToDigits(L, i) ==
  IF i < Len(L) /\ ~IsDigits(At(L, i)) THEN SkipToDigits(L, i + 1) ELSE i

\* The loop "skip empty lines" at the top of the body.
SrtSkipEmpty(L, st) ==
  LET j == SkipBlank(L, st.i)
  IN [st EXCEPT !.i = j, !.parsingCue = IF j > st.i THEN FALSE ELSE @]

\* A digits-only line followed by a line with a timestamp.
IsIndexLine(L, i) ==
  IsDigits(At(L, i)) /\ i + 1 < Len(L) /\ hasTimestamp(At(L, i + 1))

\* trimmedLine.startsWith('…').
StartsWithEllipsis(l) == l.k = "timing" /\ l.a.k = "ellipsis"

\* A text collection loop that stops at every timestamp-like line.
RECURSIVE SrtCollectTextToTimestamp(_, _, _)
SrtCollectTextToTimestamp(L, i, text) ==
  IF i < Len(L) /\ ~IsBlank(At(L, i))
    THEN LET l == At(L, i)
         IN IF IsIndexLine(L, i) THEN [i |-> i, text |-> text]
            ELSE IF hasTimestamp(l) /\ HasArrow(l) THEN [i |-> i, text |-> text]
            ELSE SrtCollectTextToTimestamp(L, i + 1, Append(text, l))
    ELSE [i |-> i, text |-> text]

\* The text collection loop: the index after it and the lines collected.
RECURSIVE SrtCollectText(_, _, _)
SrtCollectText(L, i, text) ==
  IF i < Len(L) /\ ~IsBlank(At(L, i))
    THEN LET l == At(L, i)
             looksLikeTimestamp == hasTimestamp(l) /\ HasArrow(l)
         IN IF IsIndexLine(L, i) THEN [i |-> i, text |-> text]
            ELSE IF looksLikeTimestamp /\ StartsWithEllipsis(l)
              THEN [i |-> i, text |-> text]
            ELSE IF looksLikeTimestamp /\ text = <<>> THEN [i |-> i, text |-> text]
            ELSE SrtCollectText(L, i + 1, Append(text, l))
    ELSE [i |-> i, text |-> text]

\* An index branch that does not store the number it accepts.
SrtIndexLineUnstored(L, st) ==
  [st EXCEPT
     !.errors = IF st.lastSeenIndex > 0 /\ At(L, st.i).n # st.lastSeenIndex + 1
                  THEN Append(@, Diag(st.i + 1, "Non-sequential subtitle index",
                                      "warning", 0))
                  ELSE @,
     !.i = st.i + 1,
     !.parsingCue = TRUE]

\* The branch taken on an accepted index line.
SrtIndexLine(L, st) ==
  LET n == At(L, st.i).n
  IN [st EXCEPT
        !.errors = IF st.lastSeenIndex > 0 /\ n # st.lastSeenIndex + 1
                     THEN Append(@, Diag(st.i + 1, "Non-sequential subtitle index",
                                         "warning", 0))
                     ELSE @,
        !.lastSeenIndex = n,
        !.i = st.i + 1,
        !.parsingCue = TRUE]

\* The words after the end timestamp of the line, as the first line of text.
TextAfterTimestamp(l) == IF HasArrow(l) /\ l.x # <<>> THEN <<Text(l.x)>> ELSE <<>>

SeqIf(cond, x) == IF cond THEN <<x>> ELSE <<>>

\* A comparison that never finds the end before the start.
NeverBeforeStart(start, end) == FALSE

\* effectiveEndTime < effectiveStartTime, the test of the swap.
EndBeforeStart(start, end) == end < start

\* The branch taken on a timestamp line whose range is not null.
SrtTimestampLine(L, preserveIndexes, st) ==
  LET l == At(L, st.i)
      line == st.i + 1
      timeRange == findTimestampRange(l)
      start0 == IF timeRange.start = NaN THEN 0 ELSE timeRange.start
      end0 == IF timeRange.end = NaN THEN start0 ELSE timeRange.end
      swap == EndBeforeStart(start0, end0)
      effectiveStartTime == IF swap THEN end0 ELSE start0
      effectiveEndTime == IF swap THEN start0 ELSE end0
      timeErrors ==
        SeqIf(timeRange.start = NaN,
              Diag(line, "Invalid start time. Using 0ms as start time", "warning", 0))
        \o SeqIf(timeRange.end = NaN,
              Diag(line, "Invalid end time. Using start time as end time", "warning",
                   start0))
        \o SeqIf(swap,
              Diag(line, "Invalid timing: end time before start time. Timings have been swapped.",
                   "warning", 0))
        \o SeqIf(effectiveStartTime > DayMs \/ effectiveEndTime > DayMs,
              Diag(line, "Subtitle has unusual timestamp exceeding 24 hours",
                   "warning", 0))
      got == SrtCollectText(L, st.i + 1, TextAfterTimestamp(l))
      cue == Cue(IF preserveIndexes THEN st.lastSeenIndex ELSE st.currentIndex + 1,
                 effectiveStartTime, effectiveEndTime, got.text, NoLine, NoSettings,
                 <<>>)
  IN IF timeRange.start = NaN /\ timeRange.end = NaN
       THEN [st EXCEPT
               !.errors = Append(@, Diag(line, "Invalid or missing timestamp", "error", 0)),
               !.i = st.i + 1,
               !.parsingCue = FALSE]
     ELSE IF got.text = <<>>
       THEN [st EXCEPT
               !.errors = (@ \o timeErrors)
                          \o <<Diag(got.i, "Empty subtitle text", "error", 0)>>,
               !.i = got.i,
               !.parsingCue = FALSE,
               !.currentIndex = 0,
               !.lastSeenIndex = 0]
     ELSE [st EXCEPT
             !.errors = (@ \o timeErrors)
                        \o SeqIf(~st.parsingCue,
                             Diag(got.i + 1,
                                  "Missing subtitle index, continuing with auto-numbering",
                                  "warning", 0)),
             !.i = got.i,
             !.cues = Append(@, cue),
             !.currentIndex = st.currentIndex + 1,
             !.parsingCue = FALSE]

\* An invalid-line branch that steps over the line and does not skip on.
SrtInvalidLineOneStep(L, st) ==
  [st EXCEPT
     !.errors = Append(@, Diag(st.i + 1, "Invalid subtitle format", "error", 0)),
     !.i = st.i + 1,
     !.parsingCue = FALSE,
     !.failedParses = @ + 1]

\* The branch taken on a line that is neither an index nor a timestamp line.
SrtInvalidLine(L, st) ==
  LET j == SkipToDigits(L, st.i + 1)
  IN [st EXCEPT
        !.errors = Append(@, Diag(st.i + 1, "Invalid subtitle format", "error", 0)),
        !.i = j,
        !.parsingCue = FALSE,
        !.failedParses = IF st.i + 1 = j THEN @ + 1 ELSE @]

\* A catch clause that lets the exception go on to the caller.
SrtCatchRethrow(L, st) == [st EXCEPT !.threw = TRUE, !.stop = TRUE]

\* The catch clause of the main loop.
SrtCatch(L, st) ==
  [st EXCEPT
     !.failedParses = @ + 1,
     !.errors = IF \E k \in 1..Len(st.errors) : st.errors[k].line = st.i + 1
                  THEN @
                  ELSE Append(@, Diag(st.i + 1,
                                      "Cannot read properties of null (reading 'start')",
                                      "warning", 0)),
     !.i = SkipToBlank(L, st.i) + 1,
     !.parsingCue = FALSE,
     !.stop = st.cues # <<>>]

\* Which branch one pass of the main loop takes, blank lines skipped: "end"
\* (the break at the end of the input), "index", "timestamp", "throw" (the
\* read of timeRange.start on null), "invalid".
SrtBranch(L, st) ==
  LET s == SrtSkipEmpty(L, st)
  IN IF s.i >= Len(L) THEN "end"
     ELSE IF IsIndexLine(L, s.i) THEN "index"
     ELSE IF s.parsingCue \/ HasArrow(At(L, s.i))
       THEN IF findTimestampRange(At(L, s.i)) = Null THEN "throw" ELSE "timestamp"
     ELSE "invalid"

\* One pass of the main loop.
SrtPass(L, preserveIndexes, st) ==
  LET s == SrtSkipEmpty(L, st)
      b == SrtBranch(L, st)
  IN IF b = "end" THEN [s EXCEPT !.stop = TRUE]
     ELSE IF b = "index" THEN SrtIndexLine(L, s)
     ELSE IF b = "timestamp" THEN SrtTimestampLine(L, preserveIndexes, s)
     ELSE IF b = "throw" THEN SrtCatch(L, s)
     ELSE SrtInvalidLine(L, s)

\* while (i < lines.length), to its end.
RECURSIVE SrtLoop(_, _, _)
SrtLoop(L, preserveIndexes, st) ==
  IF st.i < Len(L) /\ ~st.stop
    THEN SrtLoop(L, preserveIndexes, SrtPass(L, preserveIndexes, st))
    ELSE st

\* An overlap scan that reports identical cues as well.
RECURSIVE SrtOverlapsAll(_, _)
SrtOverlapsAll(cues, j) ==
  IF j >= Len(cues) - 1 THEN <<>>
  ELSE SeqIf(At(cues, j).endTime > At(cues, j + 1).startTime,
             Diag(j * 2 + 1, "Subtitles overlap", "warning", 0))
       \o SrtOverlapsAll(cues, j + 1)

\* The overlap scan from pair j on: the warnings it adds.
RECURSIVE SrtOverlaps(_, _)
SrtOverlaps(cues, j) ==
  IF j >= Len(cues) - 1 THEN <<>>
  ELSE LET a == At(cues, j)
           b == At(cues, j + 1)
       IN SeqIf(~(a.startTime = b.startTime /\ a.endTime = b.endTime)
                  /\ a.endTime > b.startTime,
                Diag(j * 2 + 1, "Subtitles overlap", "warning", 0))
          \o SrtOverlaps(cues, j + 1)

\* The statements after the main loop: the overlap scan and the return.
SrtReturn(st) ==
  Document("srt", st.cues, st.errors \o SrtOverlaps(st.cues, 0), <<>>, <<>>)

parseSRT(content, preserveIndexes) ==
  SrtReturn(SrtLoop(TrimSplit(content), preserveIndexes, SrtInit))

\* -------------------------------------------------------------- vtt/parser

\* One "key:value" pair applied to the settings read so far.
ApplySetting(r, w) ==
  IF w.key = "" \/ w.val = "" THEN r
  ELSE IF w.key = "vertical"
    THEN IF w.val \in {"rl", "lr"} THEN [r EXCEPT !.vertical = w.val] ELSE r
  ELSE IF w.key = "line" THEN [r EXCEPT !.line = w.val]
  ELSE IF w.key = "position" THEN [r EXCEPT !.position = w.val]
  ELSE IF w.key = "size" THEN [r EXCEPT !.size = w.val]
  ELSE IF w.key = "align"
    THEN IF w.val \in {"start", "center", "end", "left", "right"}
           THEN [r EXCEPT !.align = w.val] ELSE r
  ELSE IF w.key = "region" THEN [r EXCEPT !.region = w.val]
  ELSE r

RECURSIVE SettingsFrom(_, _)
SettingsFrom(r, words) ==
  IF words = <<>> THEN r ELSE SettingsFrom(ApplySetting(r, Head(words)), Tail(words))

parseVTTSettings(words) == SettingsFrom(NoSettings, words)

\* A region with the defaults parseVTTRegion starts from.
DefaultRegion ==
  [id |-> "", width |-> "100%", lines |-> "3", regionAnchor |-> "0%,100%",
   viewportAnchor |-> "0%,100%", scroll |-> "none"]

ApplyRegionLine(r, l) ==
  IF l.k # "keyval" THEN r
  ELSE LET w == l.x[1]
       IN IF w.key = "id" THEN [r EXCEPT !.id = w.val]
          ELSE IF w.key = "width" THEN [r EXCEPT !.width = w.val]
          ELSE IF w.key = "lines" THEN [r EXCEPT !.lines = w.val]
          ELSE IF w.key = "regionanchor" THEN [r EXCEPT !.regionAnchor = w.val]
          ELSE IF w.key = "viewportanchor" THEN [r EXCEPT !.viewportAnchor = w.val]
          ELSE IF w.key = "scroll" THEN [r EXCEPT !.scroll = w.val]
          ELSE r

RECURSIVE RegionFrom(_, _)
RegionFrom(r, ls) ==
  IF ls = <<>> THEN r ELSE RegionFrom(ApplyRegionLine(r, Head(ls)), Tail(ls))

parseVTTRegion(ls) == RegionFrom(DefaultRegion, ls)

Voice(voice, text) == [voice |-> voice, text |-> text]

\* The voice spans of the lines, in order.
RECURSIVE VoicesOf(_)
VoicesOf(text) ==
  IF text = <<>> THEN <<>>
  ELSE SeqIf(Head(text).vn # "", Voice(Head(text).vn, Head(text).vb))
       \o VoicesOf(Tail(text))

\* The line with its voice span replaced by the span's body.
StripVoice(l) == IF l.vn # "" THEN Text(l.x \o l.vb) ELSE l

\* parseVTTVoices: every <v Speaker>Text</v> taken out of the text.
parseVTTVoices(text) ==
  [text |-> [k \in 1..Len(text) |-> StripVoice(text[k])], voices |-> VoicesOf(text)]

\* parseVoiceSpans: the spans "<v Speaker>Text" left in the text.
parseVoiceSpans(text) == VoicesOf(text)

\* The state of parseVTT's main loop.
VttState(i, cues, errors, styles, regions, currentIndex, stop) ==
  [i |-> i, cues |-> cues, errors |-> errors, styles |-> styles,
   regions |-> regions, currentIndex |-> currentIndex, stop |-> stop]

\* line.trim().startsWith('WEBVTT').
IsHeader(l) == l.k = "webvtt"

\* The state after the header check: past the header and its metadata.
VttInit(L) ==
  VttState(IF IsHeader(L[1]) THEN SkipToBlank(L, 1) + 1 ELSE 0,
           <<>>, <<>>, <<>>, <<>>, 0, FALSE)

\* /^(WEBVTT|STYLE|REGION|NOTE)/ holds of the line.
IsBlockKeyword(l) == l.k \in {"webvtt", "style", "region", "note"}

\* A comment skip that runs to the blank line, arrows or not.
RECURSIVE SkipNoteToBlank(_, _)
SkipNoteToBlank(L, i) ==
  IF i < Len(L) /\ ~IsBlank(At(L, i)) THEN SkipNoteToBlank(L, i + 1) ELSE i

\* The end of a NOTE block: a blank line or a line with an arrow.
RECURSIVE SkipNote(_, _)
SkipNote(L, i) ==
  IF i < Len(L) /\ ~IsBlank(At(L, i)) /\ ~HasArrow(At(L, i))
    THEN SkipNote(L, i + 1) ELSE i

\* The end of the lines skipped after a timestamp that failed to parse.
RECURSIVE SkipFailedCue(_, _)
SkipFailedCue(L, i) ==
  IF i < Len(L) /\ ~IsBlank(At(L, i)) /\ ~HasArrow(At(L, i))
     /\ ~IsBlockKeyword(At(L, i)) /\ ~IsDigits(At(L, i))
    THEN SkipFailedCue(L, i + 1) ELSE i

\* The text collection loop of a cue.
RECURSIVE VttCollectText(_, _, _)
VttCollectText(L, i, text) ==
  IF i < Len(L) /\ ~IsBlank(At(L, i)) /\ ~IsDigits(At(L, i)) /\ ~HasArrow(At(L, i))
    THEN VttCollectText(L, i + 1, Append(text, At(L, i)))
    ELSE [i |-> i, text |-> text]

VttBlankLine(L, st) == [st EXCEPT !.i = st.i + 1]

VttNote(L, st) == [st EXCEPT !.i = SkipNote(L, st.i + 1)]

VttStyle(L, st) ==
  LET j == SkipToBlank(L, st.i + 1)
  IN [st EXCEPT !.i = j, !.styles = Append(@, SubSeq(L, st.i + 2, j))]

VttRegion(L, st) ==
  LET j == SkipToBlank(L, st.i + 1)
  IN [st EXCEPT !.i = j,
                !.regions = Append(@, parseVTTRegion(SubSeq(L, st.i + 2, j)))]

\* The index of the timestamp line of the cue block that starts at i: the
\* line itself, or the next one when the line is an identifier.
TimestampIndex(L, i) == IF HasArrow(At(L, i)) THEN i ELSE i + 1

\* A cue branch that attaches the identifier whatever the options say.
VttCueKeepingIdentifier(L, preserveIndexes, st) ==
  LET first == At(L, st.i)
      t == TimestampIndex(L, st.i)
      l == At(L, t)
      got == VttCollectText(L, t + 1, <<>>)
      parsed == parseVTTVoices(got.text)
      spans == parseVoiceSpans(parsed.text)
  IN [st EXCEPT
        !.i = got.i,
        !.cues = Append(@, Cue(st.currentIndex + 1, parseVTTTimestamp(l.a),
                     parseVTTTimestamp(l.b), parsed.text,
                     IF t # st.i THEN first ELSE NoLine,
                     parseVTTSettings(l.x),
                     IF spans # <<>> THEN spans ELSE parsed.voices)),
        !.currentIndex = @ + 1]

\* The cue branch on a block whose timestamp line parses on both sides.
VttCue(L, preserveIndexes, st) ==
  LET first == At(L, st.i)
      t == TimestampIndex(L, st.i)
      l == At(L, t)
      got == VttCollectText(L, t + 1, <<>>)
      parsed == parseVTTVoices(got.text)
      spans == parseVoiceSpans(parsed.text)
  IN [st EXCEPT
        !.i = got.i,
        !.cues = Append(@, Cue(st.currentIndex + 1, parseVTTTimestamp(l.a),
                     parseVTTTimestamp(l.b), parsed.text,
                     IF preserveIndexes /\ t # st.i THEN first ELSE NoLine,
                     parseVTTSettings(l.x),
                     IF spans # <<>> THEN spans ELSE parsed.voices)),
        !.currentIndex = @ + 1]

\* The cue branch on an identifier that ends the input: the break.
VttLoneIdentifier(L, st) == [st EXCEPT !.i = st.i + 1, !.stop = TRUE]

\* The cue branch on a block whose timestamp line has no single arrow.
VttBadTimestampLine(L, st) ==
  LET t == TimestampIndex(L, st.i)
  IN [st EXCEPT
        !.errors = Append(@, Diag(t + 1, "Invalid timestamp format", "error", 0)),
        !.i = SkipToBlank(L, t)]

\* A catch clause of the start timestamp that skips from the timestamp line
\* itself, where the skip stops at once.
VttStartErrorNoStep(L, st) ==
  LET t == TimestampIndex(L, st.i)
  IN [st EXCEPT
        !.errors = Append(@, Diag(t + 1, "Invalid VTT start time format or value",
                                  "error", 0)),
        !.i = SkipFailedCue(L, t)]

\* The catch clause of the start timestamp.
VttStartError(L, st) ==
  LET t == TimestampIndex(L, st.i)
  IN [st EXCEPT
        !.errors = Append(@, Diag(t + 1, "Invalid VTT start time format or value",
                                  "error", 0)),
        !.i = SkipFailedCue(L, t + 1)]

\* A catch clause of the end timestamp that leaves the main loop.
VttEndErrorBreak(L, st) ==
  LET t == TimestampIndex(L, st.i)
  IN [st EXCEPT
        !.errors = Append(@, Diag(t + 1, "Invalid VTT end time format or value",
                                  "error", 0)),
        !.i = SkipFailedCue(L, t + 1),
        !.stop = TRUE]

\* The catch clause of the end timestamp.
VttEndError(L, st) ==
  LET t == TimestampIndex(L, st.i)
  IN [st EXCEPT
        !.errors = Append(@, Diag(t + 1, "Invalid VTT end time format or value",
                                  "error", 0)),
        !.i = SkipFailedCue(L, t + 1)]

\* Which branch one pass of parseVTT's main loop takes.
VttBranch(L, st) ==
  LET l == At(L, st.i)
      t == TimestampIndex(L, st.i)
  IN IF IsBlank(l) THEN "blank"
     ELSE IF l.k = "note" THEN "note"
     ELSE IF l.k = "style" THEN "style"
     ELSE IF l.k = "region" THEN "region"
     ELSE IF t >= Len(L) THEN "lone"
     ELSE IF ~HasArrow(At(L, t)) THEN "badline"
     ELSE IF parseVTTTimestamp(At(L, t).a) = NaN THEN "badstart"
     ELSE IF parseVTTTimestamp(At(L, t).b) = NaN THEN "badend"
     ELSE "cue"

\* One pass of the main loop.
VttPass(L, preserveIndexes, st) ==
  LET b == VttBranch(L, st)
  IN IF b = "blank" THEN VttBlankLine(L, st)
     ELSE IF b = "note" THEN VttNote(L, st)
     ELSE IF b = "style" THEN VttStyle(L, st)
     ELSE IF b = "region" THEN VttRegion(L, st)
     ELSE IF b = "lone" THEN VttLoneIdentifier(L, st)
     ELSE IF b = "badline" THEN VttBadTimestampLine(L, st)
     ELSE IF b = "badstart" THEN VttStartError(L, st)
     ELSE IF b = "badend" THEN VttEndError(L, st)
     ELSE VttCue(L, preserveIndexes, st)

RECURSIVE VttLoop(_, _, _)
VttLoop(L, preserveIndexes, st) ==
  IF st.i < Len(L) /\ ~st.stop
    THEN VttLoop(L, preserveIndexes, VttPass(L, preserveIndexes, st))
    ELSE st

VttReturn(st) == Document("vtt", st.cues, st.errors, st.styles, st.regions)

parseVTT(content, preserveIndexes) ==
  LET L == TrimSplit(content)
  IN VttReturn(VttLoop(L, preserveIndexes, VttInit(L)))

\* ------------------------------------------------------ core-utils: detect

\* /^\d{2}:\d{2}:\d{2},\d{3}$/ holds of the token.
IsStrictSrtToken(t) ==
  /\ t.k = "clock" /\ Len(t.f) = 3
  /\ t.f[1].w = 2 /\ t.f[2].w = 2 /\ t.f[3].w = 2
  /\ t.d = "," /\ t.ms.w = 3

\* The timestamp-line pattern of detectFormat holds of the line.
IsStrictSrtTiming(l) ==
  l.k = "timing" /\ l.x = <<>> /\ IsStrictSrtToken(l.a) /\ IsStrictSrtToken(l.b)

\* !content?.trim().
IsEmptyContent(content) == \A k \in 1..Len(content) : IsBlank(content[k])

Detection(type, errors) == [type |-> type, errors |-> errors]

\* A detector that reports every unknown input as empty.
detectFormatAlwaysEmpty(content) ==
  LET L == TrimSplit(content)
  IN IF IsEmptyContent(content)
          \/ (~IsHeader(L[1])
                /\ ~(Len(L) > 2 /\ IsDigits(L[1]) /\ IsStrictSrtTiming(L[2])))
       THEN Detection("unknown", <<Diag(1, "Empty subtitle content", "error", 0)>>)
     ELSE IF IsHeader(L[1]) THEN Detection("vtt", <<>>)
     ELSE Detection("srt", <<>>)

detectFormat(content) ==
  LET L == TrimSplit(content)
  IN IF IsEmptyContent(content)
       THEN Detection("unknown", <<Diag(1, "Empty subtitle content", "error", 0)>>)
     ELSE IF IsHeader(L[1]) THEN Detection("vtt", <<>>)
     ELSE IF Len(L) > 2 /\ IsDigits(L[1]) /\ IsStrictSrtTiming(L[2])
       THEN Detection("srt", <<>>)
     ELSE Detection("unknown", <<Diag(1, "Invalid subtitle format", "error", 0)>>)

\* preserveIndexes as parse sees it when called without options: the default
\* is the empty object, whose preserveIndexes is undefined, and parse hands
\* that object on to the parser.
parseDefault == FALSE

\* preserveIndexes as parseVTT sees it when called without options.
parseVTTDefault == TRUE

\* index.ts parse.
parse(content, preserveIndexes) ==
  LET formatResult == detectFormat(content)
  IN IF formatResult.type = "srt" THEN parseSRT(content, preserveIndexes)
     ELSE IF formatResult.type = "vtt" THEN parseVTT(content, preserveIndexes)
     ELSE Document("unknown", <<>>, formatResult.errors, <<>>, <<>>)

\* -------------------------------------------------------------- generators

\* The lines of a string s.split('\n'): the empty string is one empty line.
LinesOf(text) == IF text = <<>> THEN <<Blank>> ELSE text

\* The lines of cue k and the ones after it, as generateSRT joins them.
RECURSIVE SrtCueLines(_, _, _)
SrtCueLines(cues, k, preserveIndexes) ==
  IF k > Len(cues) THEN <<>>
  ELSE LET cue == cues[k]
           sequenceNumber ==
             IF preserveIndexes /\ cue.index # 0 THEN cue.index ELSE k
       IN <<Num(sequenceNumber),
            Timing(formatTimestamp(cue.startTime), formatTimestamp(cue.endTime), <<>>)>>
          \o LinesOf(cue.text) \o <<Blank>>
          \o SrtCueLines(cues, k + 1, preserveIndexes)

\* srt/generator generateSRT: the lines of the string it returns.
generateSRT(cues, preserveIndexes) == LinesOf(SrtCueLines(cues, 1, preserveIndexes))

\* vtt/generator formatCueSettings: the words after the end timestamp.
formatCueSettings(settings) ==
  SeqIf(settings.vertical # "", Word("vertical", settings.vertical))
  \o SeqIf(settings.line # "", Word("line", settings.line))
  \o SeqIf(settings.position # "", Word("position", settings.position))
  \o SeqIf(settings.size # "", Word("size", settings.size))
  \o SeqIf(settings.align # "", Word("align", settings.align))
  \o SeqIf(settings.region # "", Word("region", settings.region))

\* vtt/generator formatVoices: one "<v Speaker>Text</v>" line per voice.
formatVoices(cue) ==
  IF cue.voices = <<>> THEN cue.text
  ELSE [k \in 1..Len(cue.voices) |->
          Voiced(<<>>, cue.voices[k].voice, cue.voices[k].text)]

HasIdentifier(cue) == cue.identifier # NoLine

\* 'identifier' in cue || 'settings' in cue || 'voices' in cue.
isVTTCue(cue) ==
  HasIdentifier(cue) \/ cue.settings # NoSettings \/ cue.voices # <<>>

\* The identifier line generateVTT gives cue k, or NoLine for none.
CueIdentifier(cues, k, preserveIndexes) ==
  IF preserveIndexes
    THEN IF \E j \in 1..Len(cues) : HasIdentifier(cues[j])
           THEN cues[k].identifier
           ELSE Num(cues[k].index)
    ELSE Num(k)

RECURSIVE VttCueBlocks(_, _, _)
VttCueBlocks(cues, k, preserveIndexes) ==
  IF k > Len(cues) THEN <<>>
  ELSE LET cue == cues[k]
           id == CueIdentifier(cues, k, preserveIndexes)
       IN SeqIf(id # NoLine, id)
          \o <<Timing(formatVTTTimestamp(cue.startTime),
                      formatVTTTimestamp(cue.endTime),
                      formatCueSettings(cue.settings))>>
          \o LinesOf(IF isVTTCue(cue) /\ cue.voices # <<>>
                       THEN formatVoices(cue) ELSE cue.text)
          \o <<Blank>>
          \o VttCueBlocks(cues, k + 1, preserveIndexes)

RECURSIVE StyleBlocks(_)
StyleBlocks(styles) ==
  IF styles = <<>> THEN <<>>
  ELSE <<Keyword("style")>> \o LinesOf(Head(styles)) \o <<Blank>>
       \o StyleBlocks(Tail(styles))

RegionLines(r) ==
  <<Blank, Keyword("region")>>
  \o SeqIf(r.id # "", KeyVal("id", r.id))
  \o SeqIf(r.width # "", KeyVal("width", r.width))
  \o SeqIf(r.lines # "", KeyVal("lines", r.lines))
  \o SeqIf(r.regionAnchor # "", KeyVal("regionanchor", r.regionAnchor))
  \o SeqIf(r.viewportAnchor # "", KeyVal("viewportanchor", r.viewportAnchor))
  \o SeqIf(r.scroll # "", KeyVal("scroll", r.scroll))

RECURSIVE RegionBlocks(_)
RegionBlocks(regions) ==
  IF regions = <<>> THEN <<>>
  ELSE RegionLines(Head(regions)) \o <<Blank>> \o RegionBlocks(Tail(regions))

\* vtt/generator generateVTT: the lines of the string it returns.
generateVTT(doc, preserveIndexes) ==
  <<Keyword("webvtt"), Blank>> \o StyleBlocks(doc.styles) \o RegionBlocks(doc.regions)
  \o VttCueBlocks(doc.cues, 1, preserveIndexes)

\* The plain-text output of build: the cue texts joined by an empty line.
RECURSIVE PlainText(_)
PlainText(cues) ==
  IF cues = <<>> THEN <<>>
  ELSE IF Head(cues).text = <<>> THEN PlainText(Tail(cues))
  ELSE LET rest == PlainText(Tail(cues))
       IN Head(cues).text \o (IF rest = <<>> THEN <<>> ELSE <<Blank>> \o rest)

\* A build that lets the type of the document go before the format option.
buildTypeFirst(doc, format, preserveIndexes) ==
  LET f == IF doc.type \in {"srt", "vtt"} THEN doc.type ELSE format
  IN IF f = "srt" THEN generateSRT(doc.cues, preserveIndexes)
     ELSE IF f = "vtt"
       THEN generateVTT(IF doc.type = "vtt" THEN doc
                        ELSE Document("vtt", doc.cues, <<>>, <<>>, <<>>),
                        preserveIndexes)
     ELSE LinesOf(PlainText(doc.cues))

\* index.ts build, given a document; format "" is the absent option.
build(doc, format, preserveIndexes) ==
  LET f == IF format # "" THEN format ELSE doc.type
  IN IF f = "srt" THEN generateSRT(doc.cues, preserveIndexes)
     ELSE IF f = "vtt"
       THEN generateVTT(IF doc.type = "vtt" THEN doc
                        ELSE Document("vtt", doc.cues, <<>>, <<>>, <<>>),
                        preserveIndexes)
     ELSE LinesOf(PlainText(doc.cues))

\* The second argument of build: an options object, or a bare string, the
\* legacy form.
OptionsObject(format, preserveIndexes) ==
  [legacy |-> FALSE, format |-> format, preserveIndexes |-> preserveIndexes]
LegacyString(format) == [legacy |-> TRUE, format |-> format, preserveIndexes |-> FALSE]

\* typeof options === 'string' ? { format: options } : options, in which
\* preserveIndexes is undefined.
BuildOpts(options) ==
  IF options.legacy THEN OptionsObject(options.format, FALSE) ELSE options

\* index.ts build, given a document and the second argument.
buildFrom(doc, options) ==
  build(doc, BuildOpts(options).format, BuildOpts(options).preserveIndexes)

\* The formats build can be asked for.
Formats == {"srt", "vtt", "text"}

\* --------------------------------------------------------- SubtitleUtils
\*
\* The cue lists are arrays of objects: heap is the sequence of the objects
\* there are, an array is the sequence of the places its elements have in
\* heap.  An object is a function of its field names, so that a field it does
\* not have is a name outside its domain.

\* The default of endAt: greater than every time there is.
Infinity == 2 ^ 30

\* { offset, startAt = 0, endAt = Infinity } and { factor, anchor = 0,
\* startAt = 0, endAt = Infinity } after the defaults are filled in.
TimeShiftOptions(offset, startAt, endAt) ==
  [offset |-> offset, startAt |-> startAt, endAt |-> endAt]
TimeScaleOptions(factor, anchor, startAt, endAt) ==
  [factor |-> factor, anchor |-> anchor, startAt |-> startAt, endAt |-> endAt]

\* The objects of an array.
Values(heap, cues) == [k \in 1..Len(cues) |-> heap[cues[k]]]

\* The original of a cue as every call writes it anew.
OriginalAnew(cue) == [startTime |-> cue.startTime, endTime |-> cue.endTime]

\* cue.original || original.
Original(cue) ==
  IF "original" \in DOMAIN cue THEN cue.original
  ELSE [startTime |-> cue.startTime, endTime |-> cue.endTime]

\* { ...cue, startTime, endTime, original: cue.original || original }.
Retimed(cue, startTime, endTime) ==
  [f \in DOMAIN cue \cup {"original"} |->
     IF f = "startTime" THEN startTime
     ELSE IF f = "endTime" THEN endTime
     ELSE IF f = "original" THEN Original(cue)
     ELSE cue[f]]

\* cue.endTime < startAt || cue.startTime > endAt.
OutOfRange(cue, options) ==
  cue.endTime < options.startAt \/ cue.startTime > options.endAt

\* The callback of shiftTime's map.
ShiftedCue(cue, options) ==
  IF OutOfRange(cue, options) THEN cue
  ELSE LET startTime == Max(0, cue.startTime + options.offset)
           endTime == Max(startTime + 1, cue.endTime + options.offset)
       IN Retimed(cue, startTime, endTime)

\* The callback of scaleTime's map.
ScaledCue(cue, options) ==
  IF OutOfRange(cue, options) THEN cue
  ELSE LET startTime ==
             Max(0, options.anchor + (cue.startTime - options.anchor) * options.factor)
           endTime ==
             Max(startTime + 1,
                 options.anchor + (cue.endTime - options.anchor) * options.factor)
       IN Retimed(cue, startTime, endTime)

\* What a call leaves: the objects, the array it was given, and the array
\* it returns.
Outcome(heap, cues, returned) == [heap |-> heap, cues |-> cues, result |-> returned]

\* The places that n new objects take after those of heap.
NewPlaces(heap, n) == [k \in 1..n |-> Len(heap) + k]

\* SubtitleUtils.shiftTime: map makes a new array of new objects.
shiftTime(heap, cues, options) ==
  Outcome(heap \o [k \in 1..Len(cues) |-> ShiftedCue(heap[cues[k]], options)],
          cues, NewPlaces(heap, Len(cues)))

\* index.ts resync.
resync(heap, cues, options) == shiftTime(heap, cues, options)

\* SubtitleUtils.scaleTime.
scaleTime(heap, cues, options) ==
  Outcome(heap \o [k \in 1..Len(cues) |-> ScaledCue(heap[cues[k]], options)],
          cues, NewPlaces(heap, Len(cues)))

\* The place of cue in the sorted array: after the elements that do not
\* start later than it (the sort is stable).
RECURSIVE InsertByStart(_, _, _)
InsertByStart(heap, sorted, cue) ==
  IF sorted = <<>> THEN <<cue>>
  ELSE IF heap[sorted[Len(sorted)]].startTime - heap[cue].startTime <= 0
    THEN Append(sorted, cue)
  ELSE Append(InsertByStart(heap, SubSeq(sorted, 1, Len(sorted) - 1), cue),
              sorted[Len(sorted)])

\* [...cues].sort((a, b) => a.startTime - b.startTime): a new array of the
\* same objects.
RECURSIVE SortByStart(_, _)
SortByStart(heap, cues) ==
  IF cues = <<>> THEN <<>>
  ELSE InsertByStart(heap, SortByStart(heap, SubSeq(cues, 1, Len(cues) - 1)),
                     cues[Len(cues)])

\* A test that lets a cue that starts where the last one ends stand apart.
OverlapsStrictly(cue, last) == cue.startTime < last.endTime

\* cue.startTime <= last.endTime.
Overlaps(cue, last) == cue.startTime <= last.endTime

\* A push of the cue itself, not of a copy.
PushedItself(heap, merged, cue) == [heap |-> heap, merged |-> Append(merged, cue)]

\* merged.push({ ...cue }): a new object with the fields of the cue.
Pushed(heap, merged, cue) ==
  [heap |-> Append(heap, heap[cue]), merged |-> Append(merged, Len(heap) + 1)]

\* The loop of mergeOverlapping from element k of sorted on.
RECURSIVE MergeFrom(_, _, _, _)
MergeFrom(heap, sorted, k, merged) ==
  IF k > Len(sorted) THEN [heap |-> heap, merged |-> merged]
  ELSE LET cue == heap[sorted[k]]
           last == merged[Len(merged)]
       IN IF merged # <<>> /\ Overlaps(cue, heap[last])
            THEN MergeFrom([heap EXCEPT ![last] =
                              [@ EXCEPT !.endTime = Max(@, cue.endTime),
                                        !.text = @ \o cue.text]],
                           sorted, k + 1, merged)
            ELSE LET p == Pushed(heap, merged, sorted[k])
                 IN MergeFrom(p.heap, sorted, k + 1, p.merged)

\* SubtitleUtils.mergeOverlapping.
mergeOverlapping(heap, cues) ==
  LET m == MergeFrom(heap, SortByStart(heap, cues), 1, <<>>)
      n == Len(m.merged)
  IN Outcome(m.heap \o [k \in 1..n |-> [m.heap[m.merged[k]] EXCEPT !.index = k]],
             cues, NewPlaces(m.heap, n))

\* minDuration and minGap of fixTimings.
minDuration == 500
minGap == 40

\* The loop of fixTimings from element k of sorted on.
RECURSIVE FixFrom(_, _, _, _)
FixFrom(heap, sorted, k, fixed) ==
  IF k > Len(sorted) THEN [heap |-> heap, fixed |-> fixed]
  ELSE LET cue == heap[sorted[k]]
           late == fixed # <<>>
                   /\ cue.startTime < heap[fixed[Len(fixed)]].endTime + minGap
           startTime == IF late THEN heap[fixed[Len(fixed)]].endTime + minGap
                        ELSE cue.startTime
           endTime0 == Max(cue.startTime + minDuration, cue.endTime)
           endTime == IF late THEN Max(startTime + minDuration, endTime0) ELSE endTime0
       IN FixFrom(Append(heap, Retimed(cue, startTime, endTime)), sorted, k + 1,
                  Append(fixed, Len(heap) + 1))

\* SubtitleUtils.fixTimings.
fixTimings(heap, cues) ==
  LET f == FixFrom(heap, SortByStart(heap, cues), 1, <<>>)
  IN Outcome(f.heap, cues, f.fixed)

\* ------------------------------------------------------------------ inputs

\* "00:00:0s,000", the SRT timestamp of second s.
SrtClock(s) == Clock(<<NL(0, 2), NL(0, 2), NL(s, 2)>>, ",", NL(0, 3))

\* "00:0s.000", the WebVTT timestamp of second s.
VttClock(s) == Clock(<<NL(0, 2), NL(s, 2)>>, ".", NL(0, 3))

\* "99:99:99,999", the large timestamp of the SRT tests.
LargeClock == Clock(<<NL(99, 2), NL(99, 2), NL(99, 2)>>, ",", NL(999, 3))

\* "100:00:00.000".
HundredHours == Clock(<<NL(100, 3), NL(0, 2), NL(0, 2)>>, ".", NL(0, 3))

\* "00:01", a timestamp with no separator after it.
BareClock == Clock(<<NL(0, 2), NL(1, 2)>>, "", NL(0, 0))

Says(w) == Text(<<Word("", w)>>)

\* The cue blocks of SRT-shaped inputs.
SrtFirst == <<Num(1), Timing(SrtClock(1), SrtClock(2), <<>>), Says("A")>>
SrtSecond == <<Num(2), Timing(SrtClock(2), SrtClock(3), <<>>), Says("B")>>
SrtReversed == <<Num(5), Timing(SrtClock(3), SrtClock(1), <<>>), Says("A")>>
SrtBareStamp == <<Num(2), Stamp(BareClock)>>
SrtNoText == <<Num(2), Timing(SrtClock(1), SrtClock(2), <<>>)>>
SrtNoIndex == <<Timing(SrtClock(1), Junk, <<>>), Says("A")>>
SrtNoTimes == <<Timing(Junk, Junk, <<>>), Says("A")>>
SrtGlued == <<Timing(SrtClock(1), SrtClock(2), <<Word("", "A")>>)>>
SrtLarge == <<Num(1), Timing(LargeClock, LargeClock, <<>>), Says("A")>>

SrtBlocks ==
  {SrtFirst, SrtSecond, SrtReversed, SrtBareStamp, SrtNoText, SrtNoIndex,
   SrtNoTimes, SrtGlued, SrtLarge}

\* "25:00:0s,000", a time between 24 and 100 hours.
DayClock(s) == Clock(<<NL(25, 2), NL(0, 2), NL(s, 2)>>, ",", NL(0, 3))

\* Further cue blocks of SRT-shaped inputs: a cue past 24 hours, a timestamp
\* line with nothing after its arrow, and an unreadable timestamp line with
\* no text under it.
SrtDayPlus == <<Num(1), Timing(DayClock(0), DayClock(1), <<>>), Says("A")>>
SrtNoEnd == <<Num(1), Timing(SrtClock(2), Empty, <<>>), Says("A")>>
SrtNoTimesOnly == <<Timing(Junk, Junk, <<>>)>>

SrtFurtherBlocks == {SrtDayPlus, SrtNoEnd, SrtNoTimesOnly}

\* "…oops", a token that starts with an ellipsis and has no digits.
Ellipsis == [k |-> "ellipsis", f |-> <<>>, d |-> "", ms |-> NL(0, 0)]

\* SRT-shaped inputs whose lines under the timestamp line are not plain
\* words: a timestamp line after a line of text, and right under the
\* timestamp line; a number as the text, and as a line of it; an index line
\* and a timestamp line right after the text; a timestamp line that starts
\* with an ellipsis after the text; an arrow line with no timestamp in it
\* right under the timestamp line.
SrtStampInText ==
  <<Num(1), Timing(SrtClock(1), SrtClock(2), <<>>), Says("A"),
    Timing(SrtClock(2), SrtClock(3), <<>>), Says("B")>>
SrtStampBeforeText ==
  <<Num(1), Timing(SrtClock(1), SrtClock(2), <<>>),
    Timing(SrtClock(2), SrtClock(3), <<>>), Says("B")>>
SrtNumberAsText == <<Num(1), Timing(SrtClock(1), SrtClock(2), <<>>), Num(73)>>
SrtNumberInText ==
  <<Num(1), Timing(SrtClock(1), SrtClock(2), <<>>), Says("A"), Num(73), Says("B")>>
SrtIndexAfterText ==
  <<Num(1), Timing(SrtClock(1), SrtClock(2), <<>>), Says("A"),
    Num(2), Timing(SrtClock(2), SrtClock(3), <<>>), Says("B")>>
SrtEllipsisAfterText ==
  <<Num(1), Timing(SrtClock(1), SrtClock(2), <<>>), Says("A"),
    Timing(Ellipsis, SrtClock(3), <<>>), Says("B")>>
SrtArrowBeforeText ==
  <<Num(1), Timing(SrtClock(1), SrtClock(2), <<>>),
    Timing(Junk, Junk, <<>>), Says("A")>>

SrtTextBlocks ==
  {SrtStampInText, SrtStampBeforeText, SrtNumberAsText, SrtNumberInText,
   SrtIndexAfterText, SrtEllipsisAfterText, SrtArrowBeforeText}

\* The blocks that follow the header of WEBVTT-shaped inputs.
VttNumbered == <<Num(1), Timing(VttClock(1), VttClock(2), <<>>), Says("A")>>
VttNamed == <<Says("cue"), Timing(VttClock(2), VttClock(3), <<>>), Says("B")>>
VttPlain == <<Timing(VttClock(1), VttClock(2), <<>>), Says("A")>>
VttReversed == <<Timing(VttClock(2), VttClock(1), <<>>), Says("A")>>
VttNoText == <<Timing(VttClock(1), VttClock(2), <<>>)>>
VttBadEnd == <<Timing(VttClock(1), Junk, <<>>), Says("A")>>
VttBadStart == <<Timing(Junk, VttClock(1), <<>>), Says("A")>>
VttVoiced ==
  <<Timing(VttClock(1), VttClock(2), <<Word("align", "start")>>),
    Voiced(<<Word("", "Hi")>>, "Bob", <<Word("", "Hello")>>)>>
VttHundredHours == <<Num(1), Timing(HundredHours, HundredHours, <<>>), Says("A")>>
VttNoteBlock == <<Keyword("note"), Says("A")>>
VttStyleBlock == <<Keyword("style"), Says("css")>>
VttRegionBlock == <<Keyword("region"), KeyVal("id", "r1")>>
VttStray == <<Says("A")>>

VttBlocks ==
  {VttNumbered, VttNamed, VttPlain, VttReversed, VttNoText, VttBadEnd,
   VttBadStart, VttVoiced, VttHundredHours, VttNoteBlock, VttStyleBlock,
   VttRegionBlock, VttStray}

\* Comments that run up to a timestamp line, with and without a line of
\* their own after the NOTE line.
VttNoteThenCue ==
  <<Keyword("note"), Says("A"), Timing(VttClock(3), VttClock(4), <<>>), Says("B")>>
VttNoteAtCue == <<Keyword("note"), Timing(VttClock(3), VttClock(4), <<>>), Says("B")>>

VttFurtherBlocks == {VttNoteThenCue, VttNoteAtCue}

\* Cue blocks with a number under the timestamp line: as the text, as a
\* line of the text, and as the identifier of a next cue.
VttNumberAsText == <<Timing(VttClock(1), VttClock(2), <<>>), Num(73)>>
VttNumberInText ==
  <<Timing(VttClock(1), VttClock(2), <<>>), Says("A"), Num(73), Says("B")>>
VttIndexAfterText ==
  <<Timing(VttClock(1), VttClock(2), <<>>), Says("A"),
    Num(2), Timing(VttClock(2), VttClock(3), <<>>), Says("B")>>

VttTextBlocks == {VttNumberAsText, VttNumberInText, VttIndexAfterText}

\* The documents of n blocks of B, an empty line between two blocks.
RECURSIVE Joined(_, _)
Joined(B, n) ==
  IF n = 1 THEN B
  ELSE {d \o <<Blank>> \o b : d \in Joined(B, n - 1), b \in B}

\* The documents of 1 to n blocks of B.
JoinedUpTo(B, n) == UNION {Joined(B, k) : k \in 1..n}

Header == <<Keyword("webvtt")>>

SrtDocs == JoinedUpTo(SrtBlocks, MaxSrtBlocks)

\* The shorter documents that have the further blocks among their blocks.
FurtherDocs == JoinedUpTo(SrtBlocks \cup SrtFurtherBlocks, MaxFurtherBlocks)

VttDocs ==
  {Header} \cup {Header \o <<Blank>> \o d : d \in JoinedUpTo(VttBlocks, MaxVttBlocks)}

\* The shorter WEBVTT documents that have the further blocks among theirs.
VttFurtherDocs ==
  {Header \o <<Blank>> \o d :
     d \in JoinedUpTo(VttFurtherBlocks \cup {VttPlain}, MaxFurtherBlocks)}

\* The documents of one block, an empty line before them.
LeadingBlankDocs ==
  {<<Blank>> \o d :
     d \in SrtBlocks \cup SrtFurtherBlocks
              \cup {Header \o <<Blank>> \o b : b \in VttBlocks}}

\* The input strings: the empty string and the documents, each with and
\* without a final newline.
Inputs ==
  LET D == {<<Blank>>} \cup SrtDocs \cup FurtherDocs \cup VttDocs
             \cup VttFurtherDocs \cup LeadingBlankDocs
  IN D \cup {d \o <<Blank>> : d \in D}

\* ----------------------------------------------------------- state machine

VARIABLES
  content,          \* the string handed to the entry point, as its lines
  entry,            \* the entry point called: "parse", "parseSRT", "parseVTT"
  preserveIndexes,  \* options.preserveIndexes of the call
  pc,               \* "idle", "srt", "vtt", "returned", "thrown", "built",
                    \* "converted"
  lines,            \* the parser's lines array
  i, cues, errors, currentIndex, stop,       \* locals of both parsers
  parsingCue, lastSeenIndex, failedParses,   \* locals of parseSRT
  styles, regions,                           \* locals of parseVTT
  threw,            \* an exception left the parser
  docs,             \* the documents returned so far, one per round
  built,            \* the string build returned last
  options,          \* the second argument of that call of build
  timestamp,        \* the string handed to parseVTTTimestamp on its own
  milliseconds,     \* what that call returned
  time,             \* the number handed to a timestamp formatter on its own
  heap,             \* the cue objects there are
  given,            \* the array the last call was handed, as the call left it
  out,              \* the array the caller holds: the cues parsed, then
                    \* what the last utility returned
  before,           \* the objects and the array handed over, as they were
                    \* when the last call began
  calls             \* the number of calls made

locals ==
  <<lines, i, cues, errors, currentIndex, stop, parsingCue, lastSeenIndex,
    failedParses, styles, regions, threw>>

\* The variables of the callers of the utilities.
held == <<heap, given, out, before, calls>>

\* No cue list is held.
NoLists ==
  /\ heap = <<>> /\ given = <<>> /\ out = <<>>
  /\ before = [heap |-> <<>>, cues |-> <<>>]
  /\ calls = 0

\* The variables of a call of parseVTTTimestamp on its own.
direct == <<timestamp, milliseconds, time, held>>

vars == <<content, entry, preserveIndexes, pc, locals, docs, built, options, direct>>

Init ==
  /\ content \in Inputs
  /\ entry = "none"
  /\ preserveIndexes = FALSE
  /\ pc = "idle"
  /\ lines = <<>>
  /\ i = 0 /\ cues = <<>> /\ errors = <<>> /\ currentIndex = 0 /\ stop = FALSE
  /\ parsingCue = FALSE /\ lastSeenIndex = 0 /\ failedParses = 0
  /\ styles = <<>> /\ regions = <<>>
  /\ threw = FALSE
  /\ docs = <<>>
  /\ built = <<>>
  /\ options = OptionsObject("", FALSE)
  /\ timestamp = NoToken
  /\ milliseconds = [whole |-> 0, fraction |-> FALSE]
  /\ NoLists
  /\ time = 0

SrtLocals ==
  SrtState(i, cues, errors, parsingCue, currentIndex, lastSeenIndex,
           failedParses, stop, threw)

SetSrtLocals(s) ==
  /\ i' = s.i /\ cues' = s.cues /\ errors' = s.errors
  /\ parsingCue' = s.parsingCue /\ currentIndex' = s.currentIndex
  /\ lastSeenIndex' = s.lastSeenIndex /\ failedParses' = s.failedParses
  /\ stop' = s.stop /\ threw' = s.threw
  /\ UNCHANGED <<styles, regions>>

VttLocals == VttState(i, cues, errors, styles, regions, currentIndex, stop)

SetVttLocals(s) ==
  /\ i' = s.i /\ cues' = s.cues /\ errors' = s.errors
  /\ styles' = s.styles /\ regions' = s.regions
  /\ currentIndex' = s.currentIndex /\ stop' = s.stop
  /\ UNCHANGED <<parsingCue, lastSeenIndex, failedParses, threw>>

\* The caller starts parseSRT: the statements before the main loop.
EnterSRT ==
  /\ pc' = "srt"
  /\ lines' = TrimSplit(content)
  /\ SetSrtLocals(SrtInit)
  /\ UNCHANGED docs

\* A start of parseVTT that takes over the diagnostics of the call before.
EnterVTTKeepingErrors ==
  /\ pc' = "vtt"
  /\ lines' = TrimSplit(content)
  /\ SetVttLocals([VttInit(TrimSplit(content)) EXCEPT !.errors = errors])
  /\ UNCHANGED docs

\* The caller starts parseVTT: the split and the header check.
EnterVTT ==
  /\ pc' = "vtt"
  /\ lines' = TrimSplit(content)
  /\ SetVttLocals(VttInit(TrimSplit(content)))
  /\ UNCHANGED docs

\* parse(content, options): detection, then the parser of the format, or the
\* unknown document.
CallParse ==
  /\ pc = "idle"
  /\ \E p \in BOOLEAN : preserveIndexes' = p
  /\ entry' = "parse"
  /\ IF detectFormat(content).type = "srt" THEN EnterSRT
     ELSE IF detectFormat(content).type = "vtt" THEN EnterVTT
     ELSE /\ pc' = "returned"
          /\ docs' = <<Document("unknown", <<>>, detectFormat(content).errors,
                                <<>>, <<>>)>>
          /\ UNCHANGED locals
  /\ UNCHANGED <<content, built, options, direct>>

\* parseSRT(content, options) called directly.
CallParseSRT ==
  /\ pc = "idle"
  /\ \E p \in BOOLEAN : preserveIndexes' = p
  /\ entry' = "parseSRT"
  /\ EnterSRT
  /\ UNCHANGED <<content, built, options, direct>>

\* parseVTT(content, options) called directly.
CallParseVTT ==
  /\ pc = "idle"
  /\ \E p \in BOOLEAN : preserveIndexes' = p
  /\ entry' = "parseVTT"
  /\ EnterVTT
  /\ UNCHANGED <<content, built, options, direct>>

\* What a pass of either main loop leaves alone.
caller == <<content, entry, preserveIndexes, pc, lines, docs, built, options, direct>>

\* parseSRT is at the top of its main loop and the pass takes branch b.
SrtAt(b) ==
  /\ pc = "srt"
  /\ i < Len(lines) /\ ~stop
  /\ SrtBranch(lines, SrtLocals) = b

\* The passes of parseSRT's main loop, one action for each branch.
SrtIndexStep ==
  /\ SrtAt("index")
  /\ SetSrtLocals(SrtIndexLine(lines, SrtSkipEmpty(lines, SrtLocals)))
  /\ UNCHANGED caller

SrtTimestampStep ==
  /\ SrtAt("timestamp")
  /\ SetSrtLocals(SrtTimestampLine(lines, preserveIndexes,
                                   SrtSkipEmpty(lines, SrtLocals)))
  /\ UNCHANGED caller

SrtThrowStep ==
  /\ SrtAt("throw")
  /\ SetSrtLocals(SrtCatch(lines, SrtSkipEmpty(lines, SrtLocals)))
  /\ UNCHANGED caller

SrtInvalidStep ==
  /\ SrtAt("invalid")
  /\ SetSrtLocals(SrtInvalidLine(lines, SrtSkipEmpty(lines, SrtLocals)))
  /\ UNCHANGED caller

SrtEndStep ==
  /\ SrtAt("end")
  /\ SetSrtLocals([SrtSkipEmpty(lines, SrtLocals) EXCEPT !.stop = TRUE])
  /\ UNCHANGED caller

\* The main loop is over: the overlap scan and the return, unless an
\* exception is on its way to the caller.
SrtReturnStep ==
  /\ pc = "srt"
  /\ i >= Len(lines) \/ stop
  /\ IF threw
       THEN pc' = "thrown" /\ UNCHANGED docs
       ELSE pc' = "returned" /\ docs' = <<SrtReturn(SrtLocals)>>
  /\ UNCHANGED <<content, entry, preserveIndexes, locals, built, options, direct>>

\* parseVTT is at the top of its main loop and the pass takes branch b.
VttAt(b) ==
  /\ pc = "vtt"
  /\ i < Len(lines) /\ ~stop
  /\ VttBranch(lines, VttLocals) = b

\* The passes of parseVTT's main loop, one action for each branch.
VttBlankStep ==
  /\ VttAt("blank")
  /\ SetVttLocals(VttBlankLine(lines, VttLocals))
  /\ UNCHANGED caller

VttNoteStep ==
  /\ VttAt("note")
  /\ SetVttLocals(VttNote(lines, VttLocals))
  /\ UNCHANGED caller

VttStyleStep ==
  /\ VttAt("style")
  /\ SetVttLocals(VttStyle(lines, VttLocals))
  /\ UNCHANGED caller

VttRegionStep ==
  /\ VttAt("region")
  /\ SetVttLocals(VttRegion(lines, VttLocals))
  /\ UNCHANGED caller

VttLoneStep ==
  /\ VttAt("lone")
  /\ SetVttLocals(VttLoneIdentifier(lines, VttLocals))
  /\ UNCHANGED caller

VttBadLineStep ==
  /\ VttAt("badline")
  /\ SetVttLocals(VttBadTimestampLine(lines, VttLocals))
  /\ UNCHANGED caller

VttBadStartStep ==
  /\ VttAt("badstart")
  /\ SetVttLocals(VttStartError(lines, VttLocals))
  /\ UNCHANGED caller

VttBadEndStep ==
  /\ VttAt("badend")
  /\ SetVttLocals(VttEndError(lines, VttLocals))
  /\ UNCHANGED caller

VttCueStep ==
  /\ VttAt("cue")
  /\ SetVttLocals(VttCue(lines, preserveIndexes, VttLocals))
  /\ UNCHANGED caller

VttReturnStep ==
  /\ pc = "vtt"
  /\ i >= Len(lines) \/ stop
  /\ pc' = "returned"
  /\ docs' = <<VttReturn(VttLocals)>>
  /\ UNCHANGED <<content, entry, preserveIndexes, locals, built, options, direct>>

\* The document the last call returned.
result == docs[Len(docs)]

\* build(result, options) with no format option: the text of the next round.
Build ==
  /\ pc = "returned"
  /\ Len(docs) < MaxRounds
  /\ options' = OptionsObject("", preserveIndexes)
  /\ built' = buildFrom(result, options')
  /\ pc' = "built"
  /\ UNCHANGED <<content, entry, preserveIndexes, locals, docs, direct>>

\* build(result, {format, preserveIndexes}) on the document of a call: the
\* caller converts it and is done.  A step of the callers that make one call
\* after another.
BuildAs ==
  /\ pc = "returned"
  /\ Len(docs) = 1
  /\ \E f \in Formats : options' = OptionsObject(f, preserveIndexes)
  /\ built' = buildFrom(result, options')
  /\ pc' = "converted"
  /\ UNCHANGED <<content, entry, preserveIndexes, locals, docs, direct>>

\* build(result, format), the format as a bare string.
BuildLegacy ==
  /\ pc = "returned"
  /\ Len(docs) = 1
  /\ \E f \in Formats : options' = LegacyString(f)
  /\ built' = buildFrom(result, options')
  /\ pc' = "converted"
  /\ UNCHANGED <<content, entry, preserveIndexes, locals, docs, direct>>

\* The entry point called again, on the text build returned.
Reparse ==
  /\ pc = "built"
  /\ docs' = Append(docs,
               IF entry = "parse" THEN parse(built, preserveIndexes)
               ELSE IF entry = "parseSRT" THEN parseSRT(built, preserveIndexes)
               ELSE parseVTT(built, preserveIndexes))
  /\ pc' = "returned"
  /\ UNCHANGED <<content, entry, preserveIndexes, locals, built, options, direct>>

Next ==
  \/ CallParse \/ CallParseSRT \/ CallParseVTT
  \/ SrtIndexStep \/ SrtTimestampStep \/ SrtThrowStep \/ SrtInvalidStep
  \/ SrtEndStep \/ SrtReturnStep
  \/ VttBlankStep \/ VttNoteStep \/ VttStyleStep \/ VttRegionStep
  \/ VttLoneStep \/ VttBadLineStep \/ VttBadStartStep \/ VttBadEndStep
  \/ VttCueStep \/ VttReturnStep
  \/ Build \/ Reparse

Spec == Init /\ [][Next]_vars

\* ------------------------------------------------- one call after another

\* The arguments of the calls that follow one another, and whose documents
\* are converted: the empty string and the documents of one block.
CallInputs ==
  {<<Blank>>} \cup SrtBlocks \cup SrtFurtherBlocks
  \cup {Header \o <<Blank>> \o b : b \in VttBlocks \cup VttFurtherBlocks}

InitCalls ==
  /\ content \in CallInputs
  /\ entry = "none"
  /\ preserveIndexes = FALSE
  /\ pc = "idle"
  /\ lines = <<>>
  /\ i = 0 /\ cues = <<>> /\ errors = <<>> /\ currentIndex = 0 /\ stop = FALSE
  /\ parsingCue = FALSE /\ lastSeenIndex = 0 /\ failedParses = 0
  /\ styles = <<>> /\ regions = <<>>
  /\ threw = FALSE
  /\ docs = <<>>
  /\ built = <<>>
  /\ options = OptionsObject("", FALSE)
  /\ timestamp = NoToken
  /\ milliseconds = [whole |-> 0, fraction |-> FALSE]
  /\ NoLists
  /\ time = 0

\* The caller, holding the document of a call, makes ready for the next call
\* with another string.  Nothing in the module outlives a call: whatever the
\* call before has written stays where it is.
CallAgain ==
  /\ pc = "returned"
  /\ Len(docs) = 1
  /\ content' \in CallInputs
  /\ pc' = "idle"
  /\ UNCHANGED <<entry, preserveIndexes, locals, docs, built, options, direct>>

NextCalls == Next \/ CallAgain \/ BuildAs \/ BuildLegacy

SpecCalls == InitCalls /\ [][NextCalls]_vars

\* --------------------------------------------- the text under a timestamp

\* Inputs whose cue text holds numbers, timestamp lines and arrow lines, and
\* the documents of one block beside them.
TextInputs ==
  CallInputs \cup SrtTextBlocks
  \cup {Header \o <<Blank>> \o b : b \in VttTextBlocks}

InitText ==
  /\ content \in TextInputs
  /\ entry = "none"
  /\ preserveIndexes = FALSE
  /\ pc = "idle"
  /\ lines = <<>>
  /\ i = 0 /\ cues = <<>> /\ errors = <<>> /\ currentIndex = 0 /\ stop = FALSE
  /\ parsingCue = FALSE /\ lastSeenIndex = 0 /\ failedParses = 0
  /\ styles = <<>> /\ regions = <<>>
  /\ threw = FALSE
  /\ docs = <<>>
  /\ built = <<>>
  /\ options = OptionsObject("", FALSE)
  /\ timestamp = NoToken
  /\ milliseconds = [whole |-> 0, fraction |-> FALSE]
  /\ NoLists
  /\ time = 0

SpecText == InitText /\ [][Next]_vars

\* ------------------------------------------- parseVTTTimestamp on its own

\* How far beyond 0 and 100 the percentages tried go.
PercentMargin == 10

\* The strings "p%" for the whole p from a little under 0 to a little over
\* 100.
PercentTimestamps == {Percent(p) : p \in (0 - PercentMargin)..(100 + PercentMargin)}

InitPercent ==
  /\ timestamp \in PercentTimestamps
  /\ milliseconds = [whole |-> 0, fraction |-> FALSE]
  /\ NoLists
  /\ time = 0
  /\ content = <<Blank>>
  /\ entry = "none"
  /\ preserveIndexes = FALSE
  /\ pc = "idle"
  /\ lines = <<>>
  /\ i = 0 /\ cues = <<>> /\ errors = <<>> /\ currentIndex = 0 /\ stop = FALSE
  /\ parsingCue = FALSE /\ lastSeenIndex = 0 /\ failedParses = 0
  /\ styles = <<>> /\ regions = <<>>
  /\ threw = FALSE
  /\ docs = <<>>
  /\ built = <<>>
  /\ options = OptionsObject("", FALSE)

\* parseVTTTimestamp(timestamp) on a string that ends with '%': the Error
\* it throws, or the number it returns.
CallParseVTTTimestamp ==
  /\ pc = "idle"
  /\ timestamp.k = "percent"
  /\ entry' = "parseVTTTimestamp"
  /\ IF PercentFails(timestamp.v)
       THEN pc' = "thrown" /\ UNCHANGED milliseconds
       ELSE pc' = "returned" /\ milliseconds' = PercentMilliseconds(timestamp.v)
  /\ UNCHANGED <<content, preserveIndexes, locals, docs, built, options, timestamp, time, held>>

NextPercent == CallParseVTTTimestamp

SpecPercent == InitPercent /\ [][NextPercent]_vars

\* ------------------------------------- timestamps written and read again

\* The values tried for the minutes and the seconds, and for the
\* milliseconds: the ends of the range and both sides of every change in
\* the number of digits.
SixtyValues == {0, 9, 10, 59}
ThousandValues == {0, 9, 10, 99, 100, 999}

\* The times handed to the formatters: every number of hours from 0 to 99
\* with those minutes, seconds and milliseconds; 0 is the least of them and
\* 359999999 the greatest.
TimesOfDay ==
  {h * 3600000 + m * 60000 + sec * 1000 + f :
     h \in 0..99, m \in SixtyValues, sec \in SixtyValues, f \in ThousandValues}

InitTimes ==
  /\ time \in TimesOfDay
  /\ timestamp = NoToken
  /\ milliseconds = [whole |-> 0, fraction |-> FALSE]
  /\ NoLists
  /\ content = <<Blank>>
  /\ entry = "none"
  /\ preserveIndexes = FALSE
  /\ pc = "idle"
  /\ lines = <<>>
  /\ i = 0 /\ cues = <<>> /\ errors = <<>> /\ currentIndex = 0 /\ stop = FALSE
  /\ parsingCue = FALSE /\ lastSeenIndex = 0 /\ failedParses = 0
  /\ styles = <<>> /\ regions = <<>>
  /\ threw = FALSE
  /\ docs = <<>>
  /\ built = <<>>
  /\ options = OptionsObject("", FALSE)

\* formatTimestamp(time) of the SRT generator.
CallFormatTimestamp ==
  /\ pc = "idle"
  /\ entry' = "formatTimestamp"
  /\ timestamp' = formatTimestamp(time)
  /\ pc' = "formatted"
  /\ UNCHANGED <<content, preserveIndexes, locals, docs, built, options,
                 milliseconds, time, held>>

\* formatVTTTimestamp(time) of the VTT generator.
CallFormatVTTTimestamp ==
  /\ pc = "idle"
  /\ entry' = "formatVTTTimestamp"
  /\ timestamp' = formatVTTTimestamp(time)
  /\ pc' = "formatted"
  /\ UNCHANGED <<content, preserveIndexes, locals, docs, built, options,
                 milliseconds, time, held>>

\* parseTimestamp of the SRT parser on what formatTimestamp returned.
CallSrtParseTimestamp ==
  /\ pc = "formatted"
  /\ entry = "formatTimestamp"
  /\ LET totalMs == srtParseTimestamp(timestamp)
     IN IF totalMs = NaN
          THEN pc' = "thrown" /\ UNCHANGED milliseconds
          ELSE /\ pc' = "returned"
               /\ milliseconds' = [whole |-> totalMs, fraction |-> FALSE]
  /\ UNCHANGED <<content, entry, preserveIndexes, locals, docs, built, options,
                 timestamp, time, held>>

\* parseVTTTimestamp on what formatVTTTimestamp returned.
CallVttParseTimestamp ==
  /\ pc = "formatted"
  /\ entry = "formatVTTTimestamp"
  /\ LET totalMs == parseVTTTimestamp(timestamp)
     IN IF totalMs = NaN
          THEN pc' = "thrown" /\ UNCHANGED milliseconds
          ELSE /\ pc' = "returned"
               /\ milliseconds' = [whole |-> totalMs, fraction |-> FALSE]
  /\ UNCHANGED <<content, entry, preserveIndexes, locals, docs, built, options,
                 timestamp, time, held>>

NextTimes ==
  \/ CallFormatTimestamp
  \/ CallFormatVTTTimestamp
  \/ CallSrtParseTimestamp
  \/ CallVttParseTimestamp

SpecTimes == InitTimes /\ [][NextTimes]_vars

\* ------------------------------------------------ the utilities on cue lists

\* The number of calls a caller makes on the cues of one document.
MaxCalls == 3

\* A cue after the others, and documents of one, two and three cues: cues
\* that touch, that lie apart, that come out of order, a cue whose end time
\* is not read and so is its start time, and a cue that ends before it
\* starts.
VttLater == <<Timing(VttClock(3), VttClock(4), <<>>), Says("C")>>
UtilSrtBlocks == {SrtFirst, SrtSecond, SrtNoIndex}
UtilVttBlocks == {VttPlain, VttNamed, VttReversed, VttLater}

UtilInputs ==
  UtilSrtBlocks
  \cup {a \o <<Blank>> \o b : a \in UtilSrtBlocks, b \in UtilSrtBlocks}
  \cup {Header \o <<Blank>> \o a : a \in UtilVttBlocks}
  \cup {Header \o <<Blank>> \o a \o <<Blank>> \o b :
          a \in UtilVttBlocks, b \in UtilVttBlocks}
  \cup {Header \o <<Blank>> \o VttPlain \o <<Blank>> \o VttLater \o <<Blank>> \o VttNamed}

\* The options the utilities are called with: the whole list moved back,
\* left in place and moved on, and the cues of a window moved on; all times
\* doubled, and the times from a point on spread around an anchor.
ShiftOptionsTried ==
  {TimeShiftOptions(0 - 1500, 0, Infinity), TimeShiftOptions(0, 0, Infinity),
   TimeShiftOptions(500, 0, Infinity), TimeShiftOptions(500, 1500, 2500)}
ResyncOptionsTried == {TimeShiftOptions(0, 0, Infinity), TimeShiftOptions(500, 0, Infinity)}
ScaleOptionsTried ==
  {TimeScaleOptions(2, 0, 0, Infinity), TimeScaleOptions(3, 1000, 1500, Infinity)}

\* The caller holds the cues of parse(content).
InitUtils ==
  /\ content \in UtilInputs
  /\ heap = parse(content, FALSE).cues
  /\ out = [k \in 1..Len(heap) |-> k]
  /\ given = <<>>
  /\ before = [heap |-> <<>>, cues |-> <<>>]
  /\ calls = 0
  /\ entry = "none"
  /\ preserveIndexes = FALSE
  /\ pc = "idle"
  /\ lines = <<>>
  /\ i = 0 /\ cues = <<>> /\ errors = <<>> /\ currentIndex = 0 /\ stop = FALSE
  /\ parsingCue = FALSE /\ lastSeenIndex = 0 /\ failedParses = 0
  /\ styles = <<>> /\ regions = <<>>
  /\ threw = FALSE
  /\ docs = <<>>
  /\ built = <<>>
  /\ options = OptionsObject("", FALSE)
  /\ timestamp = NoToken
  /\ milliseconds = [whole |-> 0, fraction |-> FALSE]
  /\ time = 0

\* The caller can make a call.
MayCall == pc \in {"idle", "called"} /\ calls < MaxCalls

\* The call name(out, ...) has left r: the caller holds what it returned.
Called(name, r) ==
  /\ entry' = name
  /\ before' = [heap |-> heap, cues |-> out]
  /\ heap' = r.heap
  /\ given' = r.cues
  /\ out' = r.result
  /\ calls' = calls + 1
  /\ pc' = "called"
  /\ UNCHANGED <<content, preserveIndexes, locals, docs, timestamp, milliseconds, time>>

\* SubtitleUtils.shiftTime(out, options).
CallShiftTime ==
  /\ MayCall
  /\ \E o \in ShiftOptionsTried :
       /\ options' = o
       /\ Called("shiftTime", shiftTime(heap, out, o))
  /\ UNCHANGED built

\* resync(out, options).
CallResync ==
  /\ MayCall
  /\ \E o \in ResyncOptionsTried :
       /\ options' = o
       /\ Called("resync", resync(heap, out, o))
  /\ UNCHANGED built

\* SubtitleUtils.scaleTime(out, options).
CallScaleTime ==
  /\ MayCall
  /\ \E o \in ScaleOptionsTried :
       /\ options' = o
       /\ Called("scaleTime", scaleTime(heap, out, o))
  /\ UNCHANGED built

\* SubtitleUtils.mergeOverlapping(out).
CallMergeOverlapping ==
  /\ MayCall
  /\ Called("mergeOverlapping", mergeOverlapping(heap, out))
  /\ UNCHANGED <<built, options>>

\* SubtitleUtils.fixTimings(out).
CallFixTimings ==
  /\ MayCall
  /\ Called("fixTimings", fixTimings(heap, out))
  /\ UNCHANGED <<built, options>>

\* generateSRT(out, { preserveIndexes: true }): the generator reads the
\* array and the objects and returns a string.
CallGenerateSRT ==
  /\ MayCall
  /\ options' = OptionsObject("", TRUE)
  /\ built' = generateSRT(Values(heap, out), TRUE)
  /\ Called("generateSRT", Outcome(heap, out, out))

\* generateVTT({ type: 'vtt', cues: out }, { preserveIndexes: true }).
CallGenerateVTT ==
  /\ MayCall
  /\ options' = OptionsObject("", TRUE)
  /\ built' = generateVTT(Document("vtt", Values(heap, out), <<>>, <<>>, <<>>), TRUE)
  /\ Called("generateVTT", Outcome(heap, out, out))

\* build(out, { format }): the array has no type of its own.
CallBuild ==
  /\ MayCall
  /\ \E f \in Formats :
       /\ options' = OptionsObject(f, FALSE)
       /\ built' = buildFrom(Document("", Values(heap, out), <<>>, <<>>, <<>>), options')
  /\ Called("build", Outcome(heap, out, out))

NextUtils ==
  \/ CallShiftTime
  \/ CallResync
  \/ CallScaleTime
  \/ CallMergeOverlapping
  \/ CallFixTimings
  \/ CallGenerateSRT
  \/ CallGenerateVTT
  \/ CallBuild

SpecUtils == InitUtils /\ [][NextUtils]_vars

\* ------------------------------------------------------------------ claims

\* The first call has returned and nothing was built from its document yet.
FirstReturned == pc = "returned" /\ Len(docs) = 1

\* Some diagnostic of the document carries the message.
HasMessage(doc, message) ==
  \E k \in 1..Len(doc.errors) : doc.errors[k].message = message

\* C1: for every input string and either value of preserveIndexes, parse,
\* parseSRT and parseVTT return a document (a type, a cue list, optional
\* diagnostics) and never throw: no exception leaves a parser, and every
\* document returned is an srt, a vtt or an unknown one.
C1_ReturnsDocument ==
  /\ pc # "thrown"
  /\ ~threw
  /\ \A k \in 1..Len(docs) : docs[k].type \in {"srt", "vtt", "unknown"}

\* C1's case: the read of timeRange.start on null threw inside parseSRT's
\* loop, and the call went on to return its document.
C1_Witness ==
  /\ FirstReturned
  /\ failedParses > 0
  /\ HasMessage(docs[1], "Cannot read properties of null (reading 'start')")

\* A well-formed cue block starts at index k of L: a blank line before it, a
\* digits-only index line, a timestamp line whose two sides parse, and a text
\* line.
WellFormedAt(L, k) ==
  /\ k >= 1 /\ k + 2 < Len(L)
  /\ IsBlank(At(L, k - 1))
  /\ IsDigits(At(L, k))
  /\ HasArrow(At(L, k + 1)) /\ At(L, k + 1).x = <<>>
  /\ parseTimeString(At(L, k + 1).a, FALSE) # NaN
  /\ parseTimeString(At(L, k + 1).b, FALSE) # NaN
  /\ At(L, k + 2).k = "text"

\* Some cue carries the times and the first text line of the block at k.
ReturnedAsCue(L, k, cs) ==
  \E j \in 1..Len(cs) :
    /\ cs[j].text # <<>> /\ cs[j].text[1] = At(L, k + 2)
    /\ {cs[j].startTime, cs[j].endTime}
         = {parseTimeString(At(L, k + 1).a, FALSE),
            parseTimeString(At(L, k + 1).b, FALSE)}

\* C2: parseSRT never abandons the scan early: whatever goes wrong in one cue
\* block, every later well-formed cue block is still returned as a cue.
C2_LaterBlocksReturned ==
  (FirstReturned /\ docs[1].type = "srt") =>
    \A k \in 1..Len(lines) :
      WellFormedAt(lines, k) => ReturnedAsCue(lines, k, docs[1].cues)

\* C2's failing case: parseSRT returned after the break of its catch clause,
\* with a well-formed block among the lines it never read.
C2_ScanAbandoned ==
  /\ FirstReturned /\ docs[1].type = "srt"
  /\ stop /\ i < Len(lines)
  /\ \E k \in i..Len(lines) :
       WellFormedAt(lines, k) /\ ~ReturnedAsCue(lines, k, docs[1].cues)

\* C3: without index preservation, the k-th cue returned by parseSRT or
\* parseVTT has index k, however many cue blocks were dropped.
C3_SequentialIndexes ==
  (FirstReturned /\ ~preserveIndexes) =>
    \A k \in 1..Len(docs[1].cues) : docs[1].cues[k].index = k

\* C3's failing case: parseSRT returned two cues that both have index 1.
C3_RepeatedIndex ==
  /\ FirstReturned /\ ~preserveIndexes /\ docs[1].type = "srt"
  /\ Len(docs[1].cues) = 2
  /\ docs[1].cues[1].index = 1 /\ docs[1].cues[2].index = 1

\* C4: whenever parse, parseSRT or parseVTT returns an empty cue list, the
\* returned document carries at least one diagnostic.
C4_EmptyHasDiagnostic ==
  \A k \in 1..Len(docs) : docs[k].cues = <<>> => docs[k].errors # <<>>

\* C4's failing case: parse returned a vtt document with no cue and no
\* diagnostic.
C4_SilentlyEmpty ==
  /\ FirstReturned /\ entry = "parse" /\ docs[1].type = "vtt"
  /\ docs[1].cues = <<>> /\ docs[1].errors = <<>>

\* C5: every diagnostic returned by parseSRT or parseVTT has a line number
\* between 1 and the number of lines of the input (counted as generously as
\* split does, an empty last line included).
C5_LinesInRange ==
  FirstReturned =>
    \A k \in 1..Len(docs[1].errors) :
      docs[1].errors[k].line >= 1 /\ docs[1].errors[k].line <= Len(content)

\* C5's failing case: the missing-index warning names the line after the last
\* line of the input.
C5_LinePastEnd ==
  /\ FirstReturned /\ docs[1].type = "srt"
  /\ \E k \in 1..Len(docs[1].errors) :
       /\ docs[1].errors[k].message
            = "Missing subtitle index, continuing with auto-numbering"
       /\ docs[1].errors[k].line = Len(content) + 1

\* C6: every cue returned by parseSRT or parseVTT has endTime >= startTime.
C6_EndNotBeforeStart ==
  \A k \in 1..Len(docs) : \A j \in 1..Len(docs[k].cues) :
    docs[k].cues[j].endTime >= docs[k].cues[j].startTime

\* C6's failing case: parseVTT returned a cue that ends before it starts.
C6_ReversedCue ==
  /\ FirstReturned /\ docs[1].type = "vtt"
  /\ \E j \in 1..Len(docs[1].cues) :
       docs[1].cues[j].endTime < docs[1].cues[j].startTime

\* The SRT texts in generateSRT's layout: numbered blocks with HH:MM:SS,mmm
\* times and a text line, an empty line after each, the last one included.
CanonicalSrtTexts ==
  {d \o <<Blank>> : d \in JoinedUpTo({SrtFirst, SrtSecond}, MaxSrtBlocks)}

\* The VTT texts in generateVTT's layout: the header, then cue blocks with an
\* identifier line and MM:SS.mmm or HH:MM:SS.mmm times, ending in a newline.
CanonicalVttTexts ==
  {Header \o <<Blank>> \o d \o <<Blank>> :
     d \in JoinedUpTo({VttNumbered, VttNamed, VttHundredHours}, MaxVttBlocks)}

\* C7: for every SRT or VTT text t written in the generators' own canonical
\* layout, parsing t with preserveIndexes on and generating the same format
\* with preserveIndexes on returns exactly t.
C7_CanonicalRoundTrip ==
  ( /\ pc = "built" /\ Len(docs) = 1 /\ preserveIndexes
    /\ \/ entry \in {"parse", "parseSRT"} /\ content \in CanonicalSrtTexts
       \/ entry \in {"parse", "parseVTT"} /\ content \in CanonicalVttTexts )
  => built = content

\* C7's failing case: a canonical VTT text with one cue at 100 hours comes
\* back as the header alone.
C7_CueLost ==
  /\ pc = "built" /\ Len(docs) = 1 /\ preserveIndexes
  /\ content = Header \o <<Blank>> \o VttHundredHours \o <<Blank>>
  /\ built = Header \o <<Blank>>

\* C8: for any input x, parse-then-generate reaches a fixed point after one
\* round: parse(generate(parse(x))) = parse(generate(parse(generate(parse(x))))).
C8_FixedPoint ==
  (entry = "parse" /\ Len(docs) = 3) => docs[2] = docs[3]

\* C8's failing case: the second document says "Invalid subtitle format" and
\* the third "Empty subtitle content".
C8_NoFixedPoint ==
  /\ entry = "parse" /\ Len(docs) = 3
  /\ docs[1].type = "srt"
  /\ HasMessage(docs[2], "Invalid subtitle format")
  /\ HasMessage(docs[3], "Empty subtitle content")

\* The syntactically valid texts: SRT cue blocks, and WEBVTT cue blocks with
\* or without an identifier, with settings and a voice span, with or without
\* the final newline.
ValidTexts ==
  LET D == JoinedUpTo({SrtFirst, SrtSecond}, MaxSrtBlocks)
           \cup {Header \o <<Blank>> \o d :
                   d \in JoinedUpTo({VttNumbered, VttNamed, VttPlain, VttVoiced},
                                    MaxVttBlocks)}
  IN D \cup {d \o <<Blank>> : d \in D}

\* C9: for syntactically valid SRT or VTT text written in a non-canonical
\* variant (for example short timestamps), parse(generate(parse(text))) equals
\* parse(text).
C9_ModelRoundTrip ==
  ( /\ entry = "parse" /\ Len(docs) >= 2
    /\ content \in ValidTexts \ (CanonicalSrtTexts \cup CanonicalVttTexts) )
  => docs[2] = docs[1]

\* C9's failing case: parse read "Hi <v Bob>Hello</v>" as the text "Hi Hello",
\* and reads the generated text back as "Hello".
C9_TextLost ==
  /\ entry = "parse" /\ ~preserveIndexes /\ Len(docs) >= 2
  /\ content = Header \o <<Blank>> \o VttVoiced
  /\ docs[1].cues[1].text = <<Text(<<Word("", "Hi"), Word("", "Hello")>>)>>
  /\ docs[2].cues[1].text = <<Text(<<Word("", "Hello")>>)>>

\* C10: no cue returned by parseSRT or parseVTT has empty or whitespace-only
\* text (a cue block with no text yields an error diagnostic and no cue).
C10_NoEmptyText ==
  \A k \in 1..Len(docs) : \A j \in 1..Len(docs[k].cues) :
    docs[k].cues[j].text # <<>>

\* C10's failing case: parseVTT returned a cue with empty text and no
\* diagnostic at all.
C10_EmptyTextCue ==
  /\ FirstReturned /\ docs[1].type = "vtt" /\ docs[1].errors = <<>>
  /\ \E j \in 1..Len(docs[1].cues) : docs[1].cues[j].text = <<>>

\* The time a timestamp token states, in milliseconds: its fields read as
\* hours, minutes and seconds, and its fraction.
StatedMs(t) == HmsSeconds(t.f) * 1000 + PadMs(t.ms)

\* Index k of L is the timestamp line of a cue whose end exceeds 359,999,999
\* ms: two timestamp tokens in order, nothing after them, and a text line.
BeyondLimitAt(L, k) ==
  /\ k + 1 < Len(L)
  /\ HasArrow(At(L, k)) /\ At(L, k).x = <<>>
  /\ At(L, k).a.k = "clock" /\ At(L, k).b.k = "clock"
  /\ StatedMs(At(L, k).a) <= StatedMs(At(L, k).b)
  /\ StatedMs(At(L, k).b) > UnusualLimit
  /\ At(L, k + 1).k = "text"

\* C11: a cue whose start or end exceeds 359,999,999 ms is kept by parseSRT
\* and by parseVTT, and the condition is reported as a warning, not as an
\* error: the document has a cue with the stated times, and the diagnostics
\* of the cue's timestamp line are warnings, at least one of them.
C11_LargeKeptWithWarning ==
  (FirstReturned /\ docs[1].type \in {"srt", "vtt"}) =>
    \A k \in 0..(Len(lines) - 1) :
      BeyondLimitAt(lines, k) =>
        /\ \E j \in 1..Len(docs[1].cues) :
             /\ docs[1].cues[j].startTime = StatedMs(At(lines, k).a)
             /\ docs[1].cues[j].endTime = StatedMs(At(lines, k).b)
        /\ \E e \in 1..Len(docs[1].errors) :
             docs[1].errors[e].line = k + 1 /\ docs[1].errors[e].severity = "warning"
        /\ \A e \in 1..Len(docs[1].errors) :
             docs[1].errors[e].line = k + 1 => docs[1].errors[e].severity = "warning"

\* C11's failing case: parseVTT met a cue beyond the limit, reported it as
\* an error and returned no cue for it.
C11_LargeRejected ==
  /\ FirstReturned /\ docs[1].type = "vtt"
  /\ docs[1].cues = <<>>
  /\ \E k \in 0..(Len(lines) - 1) :
       /\ BeyondLimitAt(lines, k)
       /\ \E e \in 1..Len(docs[1].errors) :
            /\ docs[1].errors[e].line = k + 1
            /\ docs[1].errors[e].severity = "error"
            /\ docs[1].errors[e].message = "Invalid VTT start time format or value"

\* Diagnostic e of the document is parseSRT's unusual-timestamp warning.
IsUnusualWarning(doc, e) ==
  /\ doc.errors[e].message = "Subtitle has unusual timestamp exceeding 24 hours"
  /\ doc.errors[e].severity = "warning"

\* Neither side of the timestamp line l reads above 359,999,999 ms.
WithinLimit(l) ==
  /\ findTimestampRange(l).start <= UnusualLimit
  /\ findTimestampRange(l).end <= UnusualLimit

\* C12: parseSRT reports an unusual-timestamp warning only for cues whose
\* start or end exceeds 359,999,999 ms: the timestamp line every such
\* warning points at has a side above that bound, so a cue whose times are
\* all at or below the bound gets no such warning.
C12_WarningOnlyBeyondLimit ==
  (FirstReturned /\ docs[1].type = "srt") =>
    \A e \in 1..Len(docs[1].errors) :
      IsUnusualWarning(docs[1], e) =>
        ~WithinLimit(At(lines, docs[1].errors[e].line - 1))

\* C12's failing case: parseSRT returned a cue of a timestamp line whose
\* sides are both at or below the bound, with the warning on that line.
C12_WarnedWithinLimit ==
  /\ FirstReturned /\ docs[1].type = "srt"
  /\ \E e \in 1..Len(docs[1].errors) :
       /\ IsUnusualWarning(docs[1], e)
       /\ HasArrow(At(lines, docs[1].errors[e].line - 1))
       /\ WithinLimit(At(lines, docs[1].errors[e].line - 1))
       /\ \E j \in 1..Len(docs[1].cues) :
            /\ docs[1].cues[j].startTime = findTimestampRange(At(lines, docs[1].errors[e].line - 1)).start
            /\ docs[1].cues[j].endTime = findTimestampRange(At(lines, docs[1].errors[e].line - 1)).end
            /\ docs[1].cues[j].endTime > DayMs

\* Index t of L is a timestamp line of which parseVTT cannot read the start
\* or the end.
VttFailsAt(L, t) ==
  /\ HasArrow(At(L, t))
  /\ parseVTTTimestamp(At(L, t).a) = NaN \/ parseVTTTimestamp(At(L, t).b) = NaN

\* Index t of L is a timestamp line of which parseVTT reads both sides.
VttParsesAt(L, t) ==
  /\ HasArrow(At(L, t))
  /\ parseVTTTimestamp(At(L, t).a) # NaN
  /\ parseVTTTimestamp(At(L, t).b) # NaN

\* The diagnostics of the document that point at line n.
DiagnosticsAt(doc, n) == {e \in 1..Len(doc.errors) : doc.errors[e].line = n}

Unreadable(t) == t.k # "clock"

\* The line parseSRT's pass starts at, the empty lines before it skipped.
SrtLineAt == SrtSkipEmpty(lines, SrtLocals).i

\* parseSRT is at a timestamp line of which exactly one side is no timestamp,
\* with a text line under it.
OneSideFails ==
  /\ SrtAt("timestamp")
  /\ HasArrow(At(lines, SrtLineAt))
  /\ Unreadable(At(lines, SrtLineAt).a) # Unreadable(At(lines, SrtLineAt).b)
  /\ SrtLineAt + 1 < Len(lines) /\ At(lines, SrtLineAt + 1).k = "text"

\* The start the claim gives the cue of timestamp line l: 0 for a failed
\* start.
DefaultedStart(l) == IF Unreadable(l.a) THEN 0 ELSE parseTimeString(l.a, FALSE)

\* The end the claim gives it: the start value for a failed end.
DefaultedEnd(l) ==
  IF Unreadable(l.b) THEN DefaultedStart(l) ELSE parseTimeString(l.b, l.x # <<>>)

\* C14: when exactly one side of an SRT timestamp line fails to parse, the
\* pass of parseSRT keeps the cue, with 0 for a failed start and the start
\* value for a failed end, and adds a warning on the timestamp line.
C14_OneSideDefaulted ==
  [][OneSideFails =>
       /\ Len(cues') = Len(cues) + 1
       /\ cues'[Len(cues')].startTime = DefaultedStart(At(lines, SrtLineAt))
       /\ cues'[Len(cues')].endTime = DefaultedEnd(At(lines, SrtLineAt))
       /\ \E e \in (Len(errors) + 1)..Len(errors') :
            /\ errors'[e].line = SrtLineAt + 1
            /\ errors'[e].severity = "warning"]_vars

\* C14's failing case: the end of a timestamp line is missing, and parseSRT
\* returned its cue from 0 to the start value, with no warning of an invalid
\* end time.
C14_MissingEndReadAsZero ==
  /\ FirstReturned /\ docs[1].type = "srt"
  /\ ~HasMessage(docs[1], "Invalid end time. Using start time as end time")
  /\ \E t \in 0..(Len(lines) - 1) :
       /\ HasArrow(At(lines, t))
       /\ ~Unreadable(At(lines, t).a) /\ At(lines, t).b = Empty
       /\ \E j \in 1..Len(docs[1].cues) :
            /\ docs[1].cues[j].startTime = 0
            /\ docs[1].cues[j].endTime = parseTimeString(At(lines, t).a, FALSE)
            /\ docs[1].cues[j].endTime > 0

\* parseSRT is at a timestamp line neither side of which is a timestamp.
BothSidesFail ==
  /\ SrtAt("timestamp")
  /\ HasArrow(At(lines, SrtLineAt))
  /\ Unreadable(At(lines, SrtLineAt).a) /\ Unreadable(At(lines, SrtLineAt).b)

\* The next line parseSRT takes up is a digits-only index line, or no line
\* is: the pass ends the input, accepts an index, or is the skip of lines
\* that ends at a digits-only line.
ResumesAtIndexLine == ~SrtAt("timestamp") /\ ~SrtAt("throw")

\* C15: when both sides of an SRT timestamp line fail to parse, the pass of
\* parseSRT adds one error on that line and no cue, and parseSRT resumes at
\* the next digits-only index line.
C15_BothSidesFailed ==
  [][BothSidesFail =>
       /\ cues' = cues
       /\ Len(errors') = Len(errors) + 1
       /\ errors'[Len(errors')].line = SrtLineAt + 1
       /\ errors'[Len(errors')].severity = "error"
       /\ ResumesAtIndexLine']_vars

\* C15's failing case: the input has no digits-only line, and parseSRT
\* returned a cue of a timestamp line that comes after the one it reported
\* as unreadable on both sides.
C15_ResumedAtTimestampLine ==
  /\ FirstReturned /\ docs[1].type = "srt"
  /\ HasMessage(docs[1], "Invalid or missing timestamp")
  /\ Len(docs[1].cues) = 1
  /\ \A v \in 0..(Len(lines) - 1) : ~IsDigits(At(lines, v))
  /\ \E t \in 0..(Len(lines) - 1) :
       /\ HasArrow(At(lines, t))
       /\ Unreadable(At(lines, t).a) /\ Unreadable(At(lines, t).b)
       /\ \A v \in 0..(Len(lines) - 1) : HasArrow(At(lines, v)) => v >= t

\* parseSRT is at a timestamp line both sides of which are timestamps that
\* parse, the end before the start, with text after it or under it.
EndFirst ==
  /\ SrtAt("timestamp")
  /\ HasArrow(At(lines, SrtLineAt))
  /\ ~Unreadable(At(lines, SrtLineAt).a) /\ ~Unreadable(At(lines, SrtLineAt).b)
  /\ findTimestampRange(At(lines, SrtLineAt)).start # NaN
  /\ findTimestampRange(At(lines, SrtLineAt)).end # NaN
  /\ findTimestampRange(At(lines, SrtLineAt)).end
       < findTimestampRange(At(lines, SrtLineAt)).start
  /\ \/ At(lines, SrtLineAt).x # <<>>
     \/ SrtLineAt + 1 < Len(lines) /\ At(lines, SrtLineAt + 1).k = "text"

\* The diagnostics of errs from number n on that say the sides were swapped.
SwapWarnings(errs, n) ==
  {e \in n..Len(errs) :
     /\ errs[e].message
          = "Invalid timing: end time before start time. Timings have been swapped."
     /\ errs[e].severity = "warning"}

\* C16: when both sides of an SRT timestamp line parse and end < start, the
\* pass of parseSRT keeps the cue with start and end exchanged and adds
\* exactly one warning of the exchange, on the timestamp line.
C16_SwappedWithWarning ==
  [][EndFirst =>
       /\ Len(cues') = Len(cues) + 1
       /\ cues'[Len(cues')].startTime = findTimestampRange(At(lines, SrtLineAt)).end
       /\ cues'[Len(cues')].endTime = findTimestampRange(At(lines, SrtLineAt)).start
       /\ Cardinality(SwapWarnings(errors', Len(errors) + 1)) = 1
       /\ \A e \in SwapWarnings(errors', Len(errors) + 1) :
            errors'[e].line = SrtLineAt + 1]_vars

\* C16's case: parseSRT returned the cue of a timestamp line whose end is
\* before its start, the sides exchanged, and the warning.
C16_Witness ==
  /\ FirstReturned /\ docs[1].type = "srt"
  /\ SwapWarnings(docs[1].errors, 1) # {}
  /\ \E t \in 0..(Len(lines) - 1) :
       /\ HasArrow(At(lines, t))
       /\ ~Unreadable(At(lines, t).a) /\ ~Unreadable(At(lines, t).b)
       /\ findTimestampRange(At(lines, t)).end < findTimestampRange(At(lines, t)).start
       /\ \E j \in 1..Len(docs[1].cues) :
            /\ docs[1].cues[j].startTime = findTimestampRange(At(lines, t)).end
            /\ docs[1].cues[j].endTime = findTimestampRange(At(lines, t)).start

\* The overlap warnings of a document.
OverlapWarnings(doc) ==
  {e \in 1..Len(doc.errors) :
     doc.errors[e].message = "Subtitles overlap" /\ doc.errors[e].severity = "warning"}

\* The adjacent pairs of cues, by the place of the first, in which the first
\* ends after the second starts and the two do not have the same start and end.
OverlappingPairs(cs) ==
  {j \in 1..(Len(cs) - 1) :
     /\ cs[j].endTime > cs[j + 1].startTime
     /\ ~(cs[j].startTime = cs[j + 1].startTime /\ cs[j].endTime = cs[j + 1].endTime)}

\* C17: after parseSRT, the overlap warnings are as many as the adjacent
\* pairs of returned cues, in parse order, in which cue[i].endTime >
\* cue[i+1].startTime and the two do not have identical start and end; the
\* cues of those pairs are in the document returned.
C17_OverlapWarnings ==
  (FirstReturned /\ docs[1].type = "srt") =>
    /\ Cardinality(OverlapWarnings(docs[1])) = Cardinality(OverlappingPairs(cues))
    /\ docs[1].cues = cues

\* C17's case: parseSRT returned a document with an overlapping pair and a
\* pair of identical cues.
C17_Witness ==
  /\ FirstReturned /\ docs[1].type = "srt"
  /\ OverlappingPairs(docs[1].cues) # {}
  /\ OverlapWarnings(docs[1]) # {}
  /\ \E j \in 1..(Len(docs[1].cues) - 1) :
       /\ docs[1].cues[j].startTime = docs[1].cues[j + 1].startTime
       /\ docs[1].cues[j].endTime = docs[1].cues[j + 1].endTime

\* The index lines of L before index k: digits-only lines with a timestamp on
\* the line under them.
IndexLinesBefore(L, k) == {p \in 0..(k - 1) : IsIndexLine(L, p)}

\* The number of the index line that comes last before index k of L.
PreviousIndex(L, k) ==
  At(L, CHOOSE p \in IndexLinesBefore(L, k) :
          \A q \in IndexLinesBefore(L, k) : q <= p).n

\* parseSRT is at an index line it accepts, an index line was seen before
\* it, and its number is not that line's number plus one.
IndexJumps ==
  /\ SrtAt("index")
  /\ IndexLinesBefore(lines, SrtLineAt) # {}
  /\ At(lines, SrtLineAt).n # PreviousIndex(lines, SrtLineAt) + 1

\* C18: whenever parseSRT accepts an index line whose number is not the
\* previously seen index plus one, the pass adds a 'Non-sequential subtitle
\* index' warning for that line and still accepts the index.
C18_JumpWarned ==
  [][IndexJumps =>
       /\ lastSeenIndex' = At(lines, SrtLineAt).n
       /\ parsingCue'
       /\ errors' = Append(errors, Diag(SrtLineAt + 1, "Non-sequential subtitle index",
                                        "warning", 0))]_vars

\* C18's failing case: parseSRT has accepted an index that is not the
\* previous index plus one, and no diagnostic says so.
C18_JumpNotWarned ==
  /\ pc = "srt" /\ parsingCue /\ i >= 1
  /\ IsIndexLine(lines, i - 1)
  /\ lastSeenIndex = At(lines, i - 1).n
  /\ IndexLinesBefore(lines, i - 1) # {}
  /\ At(lines, i - 1).n # PreviousIndex(lines, i - 1) + 1
  /\ \A e \in 1..Len(errors) : errors[e].message # "Non-sequential subtitle index"

\* parseSRT, called with preserveIndexes on, is at a timestamp line that has
\* an index line right above it.
AtIndexedBlock ==
  /\ SrtAt("timestamp")
  /\ preserveIndexes
  /\ SrtLineAt >= 1
  /\ IsIndexLine(lines, SrtLineAt - 1)

\* C19: with preserveIndexes on, every cue parseSRT collects from a block
\* that has an index line carries exactly the number that line declares as
\* its index, sequential or not.
C19_DeclaredIndexKept ==
  [][(AtIndexedBlock /\ Len(cues') = Len(cues) + 1) =>
       cues'[Len(cues')].index = At(lines, SrtLineAt - 1).n]_vars

\* C19's case: parseSRT, with preserveIndexes on, returned a cue whose index
\* is the number its index line declares and not the cue's position.
C19_Witness ==
  /\ FirstReturned /\ docs[1].type = "srt"
  /\ preserveIndexes
  /\ \E j \in 1..Len(docs[1].cues) :
       \E t \in 0..(Len(lines) - 2) :
         /\ IsIndexLine(lines, t)
         /\ At(lines, t).n # j
         /\ docs[1].cues[j].index = At(lines, t).n
         /\ {docs[1].cues[j].startTime, docs[1].cues[j].endTime}
              = {findTimestampRange(At(lines, t + 1)).start,
                 findTimestampRange(At(lines, t + 1)).end}

\* parseSRT is at a timestamp line with no index line above it, a side of
\* which parses, with text after it or under it.
AtBareBlock ==
  /\ SrtAt("timestamp")
  /\ HasArrow(At(lines, SrtLineAt))
  /\ ~(SrtLineAt >= 1 /\ IsDigits(At(lines, SrtLineAt - 1)))
  /\ \/ findTimestampRange(At(lines, SrtLineAt)).start # NaN
     \/ findTimestampRange(At(lines, SrtLineAt)).end # NaN
  /\ \/ At(lines, SrtLineAt).x # <<>>
     \/ SrtLineAt + 1 < Len(lines) /\ At(lines, SrtLineAt + 1).k = "text"

\* C20: an SRT cue whose timestamp line is not preceded by an index line is
\* kept, gets a missing-index warning, and is numbered with its 1-based
\* position among the returned cues, whether or not preserveIndexes is set.
C20_AutoNumbered ==
  [][AtBareBlock =>
       /\ Len(cues') = Len(cues) + 1
       /\ cues'[Len(cues')].index = Len(cues')
       /\ \E e \in (Len(errors) + 1)..Len(errors') :
            /\ errors'[e].message
                 = "Missing subtitle index, continuing with auto-numbering"
            /\ errors'[e].severity = "warning"]_vars

\* C20's failing case: with preserveIndexes on, parseSRT returned the cues of
\* an input that has no digits-only line, the first of them numbered 0.
C20_NumberedZero ==
  /\ FirstReturned /\ docs[1].type = "srt"
  /\ preserveIndexes
  /\ \A v \in 0..(Len(lines) - 1) : ~IsDigits(At(lines, v))
  /\ HasMessage(docs[1], "Missing subtitle index, continuing with auto-numbering")
  /\ docs[1].cues # <<>>
  /\ docs[1].cues[1].index = 0

\* Index t of L is a timestamp line with an identifier line above it: a line
\* that is not empty, has no arrow and is no block keyword, at the start of
\* the input or under an empty line.
HasIdentifierLine(L, t) ==
  /\ t >= 1
  /\ At(L, t - 1).k \in {"num", "text", "stamp", "keyval"}
  /\ t = 1 \/ IsBlank(At(L, t - 2))

\* Index t of L is a timestamp line with no identifier line: it is the first
\* line or the line above it is empty.
HasNoIdentifierLine(L, t) == t = 0 \/ IsBlank(At(L, t - 1))

\* Some cue of cs has the times of the timestamp line at index t of L and the
\* identifier id.
VttCueWith(L, t, cs, id) ==
  \E j \in 1..Len(cs) :
    /\ cs[j].startTime = parseVTTTimestamp(At(L, t).a)
    /\ cs[j].endTime = parseVTTTimestamp(At(L, t).b)
    /\ cs[j].identifier = id

\* C21: with preserveIndexes on, parseVTT attaches the identifier line of a
\* cue, numeric or textual, verbatim as cue.identifier, and a cue that has
\* none is returned without one; with preserveIndexes off no returned cue
\* has an identifier.
C21_IdentifierRetention ==
  (FirstReturned /\ docs[1].type = "vtt") =>
    /\ ~preserveIndexes =>
         \A j \in 1..Len(docs[1].cues) : docs[1].cues[j].identifier = NoLine
    /\ preserveIndexes =>
         \A t \in 0..(Len(lines) - 1) :
           /\ (VttParsesAt(lines, t) /\ HasIdentifierLine(lines, t)) =>
                VttCueWith(lines, t, docs[1].cues, At(lines, t - 1))
           /\ (VttParsesAt(lines, t) /\ HasNoIdentifierLine(lines, t)) =>
                VttCueWith(lines, t, docs[1].cues, NoLine)

\* C21's case: parseVTT, with preserveIndexes on, returned a cue with a
\* numeric identifier, one with a textual identifier or one with none.
C21_Witness ==
  /\ FirstReturned /\ docs[1].type = "vtt"
  /\ preserveIndexes
  /\ Len(docs[1].cues) = 2
  /\ docs[1].cues[1].identifier.k \in {"num", "text"}
  /\ docs[1].cues[2].identifier = NoLine


\* The identifiers of the cues cs, in order.
Identifiers(cs) == [j \in 1..Len(cs) |-> cs[j].identifier]

\* C22: for content detected as VTT, parse(content) called without options
\* keeps the cue identifiers exactly as parseVTT(content) called without
\* options does.
C22_ParseKeepsIdentifiers ==
  (/\ FirstReturned /\ entry = "parse" /\ docs[1].type = "vtt"
   /\ preserveIndexes = parseDefault) =>
    Identifiers(docs[1].cues) =
      Identifiers(parseVTT(content, parseVTTDefault).cues)

\* parse, called without options on VTT content, returned a cue without the
\* identifier that parseVTT called without options gives it.
C22_IdentifierDropped ==
  /\ FirstReturned /\ entry = "parse" /\ docs[1].type = "vtt"
  /\ preserveIndexes = parseDefault
  /\ \E j \in 1..Len(docs[1].cues) :
       /\ docs[1].cues[j].identifier = NoLine
       /\ parseVTT(content, parseVTTDefault).cues[j].identifier # NoLine


\* The input, without the empty lines around it, starts with the WEBVTT
\* header line.
StartsAsVtt(c) == ~IsEmptyContent(c) /\ TrimSplit(c)[1].k = "webvtt"

\* The input, without the empty lines around it, starts as an SRT block: an
\* index line, a line HH:MM:SS,mmm --> HH:MM:SS,mmm and at least one more
\* line.
StartsAsSrt(c) ==
  /\ ~IsEmptyContent(c)
  /\ Len(TrimSplit(c)) >= 3
  /\ TrimSplit(c)[1].k = "num"
  /\ IsStrictSrtTiming(TrimSplit(c)[2])

C25_CursorAdvances ==
  /\ (pc = "srt" /\ i < Len(lines) /\ ~stop) =>
       SrtPass(lines, preserveIndexes, SrtLocals).i > i
  /\ (pc = "vtt" /\ i < Len(lines) /\ ~stop) =>
       VttPass(lines, preserveIndexes, VttLocals).i > i
  /\ pc \in {"srt", "vtt"} => i >= 0 /\ i <= Len(lines) + 1

\* C25's case: a main loop has made passes that returned cues and
\* diagnostics, and no line is left.
C25_Witness ==
  /\ pc \in {"srt", "vtt"}
  /\ i >= Len(lines)
  /\ Len(cues) >= 2 /\ errors # <<>>


\* The messages of the diagnostics raised for an index line.
IndexLineMessages == {"Non-sequential subtitle index"}

\* The messages of the diagnostics raised for a timestamp line.
TimestampLineMessages ==
  {"Invalid start time. Using 0ms as start time",
   "Invalid end time. Using start time as end time",
   "Invalid timing: end time before start time. Timings have been swapped.",
   "Subtitle has unusual timestamp exceeding 24 hours",
   "Invalid or missing timestamp",
   "Invalid VTT start time format or value",
   "Invalid VTT end time format or value"}

\* Line number n of the input c, counted from 1 over every line of c, is a
\* line of digits only.
IndexLineOfInput(c, n) == n >= 1 /\ n <= Len(c) /\ IsDigits(c[n])

\* Line number n of the input c is a line with an arrow.
TimestampLineOfInput(c, n) == n >= 1 /\ n <= Len(c) /\ HasArrow(c[n])

\* C26: each diagnostic raised for an index line or a timestamp line reports
\* the 1-based position of that line in the original input, every physical
\* line counted, leading empty lines included.
C26_LineOfInput ==
  FirstReturned =>
    \A k \in 1..Len(docs[1].errors) :
      /\ docs[1].errors[k].message \in IndexLineMessages =>
           IndexLineOfInput(content, docs[1].errors[k].line)
      /\ docs[1].errors[k].message \in TimestampLineMessages =>
           TimestampLineOfInput(content, docs[1].errors[k].line)

\* A diagnostic of a timestamp line reports a line of the input that is not
\* a timestamp line, the input starting with an empty line.
C26_LeadingBlankNotCounted ==
  /\ FirstReturned
  /\ IsBlank(content[1]) /\ Len(content) > 1
  /\ \E k \in 1..Len(docs[1].errors) :
       /\ docs[1].errors[k].message \in TimestampLineMessages
       /\ ~TimestampLineOfInput(content, docs[1].errors[k].line)
       /\ TimestampLineOfInput(content, docs[1].errors[k].line + 1)


\* Index t of L is a timestamp line that ends a comment: a NOTE line stands
\* at n above it, and only lines that are not empty and have no arrow stand
\* between the two.
EndsComment(L, n, t) ==
  /\ n < t /\ At(L, n).k = "note" /\ HasArrow(At(L, t))
  /\ \A m \in (n + 1)..(t - 1) : ~IsBlank(At(L, m)) /\ ~HasArrow(At(L, m))

\* C27: a NOTE block of parseVTT never consumes a timestamp line: the
\* timestamp line that ends a comment is parsed as a cue, which is returned
\* with the times of that line and without identifier.
C27_NoteStopsAtTimestamp ==
  (FirstReturned /\ docs[1].type = "vtt") =>
    \A n, t \in 0..(Len(lines) - 1) :
      (EndsComment(lines, n, t) /\ VttParsesAt(lines, t)) =>
        VttCueWith(lines, t, docs[1].cues, NoLine)

\* C27's case: parseVTT returned the cue of a timestamp line that ends a
\* comment of two lines.
C27_Witness ==
  /\ FirstReturned /\ docs[1].type = "vtt"
  /\ \E n \in 0..(Len(lines) - 3) :
       /\ EndsComment(lines, n, n + 2) /\ VttParsesAt(lines, n + 2)
       /\ VttCueWith(lines, n + 2, docs[1].cues, NoLine)


\* The index in the text of its k-th line with an arrow, from index t on;
\* the length of the text if there are fewer.
RECURSIVE ArrowLine(_, _, _)
ArrowLine(text, k, t) ==
  IF t >= Len(text) THEN t
  ELSE IF HasArrow(At(text, t))
    THEN IF k = 1 THEN t ELSE ArrowLine(text, k - 1, t + 1)
  ELSE ArrowLine(text, k, t + 1)

\* The line the generated text has above the timestamp line of its k-th cue:
\* the number or identifier emitted for that cue, or an empty line.
EmittedFor(text, k) == At(text, ArrowLine(text, k, 0) - 1)

\* build has generated SRT or VTT text from the first document returned.
FirstBuilt ==
  pc = "built" /\ Len(docs) = 1 /\ docs[1].type \in {"srt", "vtt"}

\* C28: with preserveIndexes off the generators emit the k-th cue of the list
\* with number k, whatever its index or identifier; with preserveIndexes on,
\* what is emitted for a cue is that cue's own index or its own identifier.
C28_EmittedNumbers ==
  FirstBuilt =>
    \A k \in 1..Len(docs[1].cues) :
      /\ ~preserveIndexes => EmittedFor(built, k) = Num(k)
      /\ (preserveIndexes /\ ~IsBlank(EmittedFor(built, k))) =>
           \/ EmittedFor(built, k) = Num(docs[1].cues[k].index)
           \/ EmittedFor(built, k) = docs[1].cues[k].identifier

\* generateSRT, with preserveIndexes on, emitted a cue whose index is 0 with
\* its position in the list.
C28_IndexZeroRenumbered ==
  /\ FirstBuilt /\ preserveIndexes
  /\ docs[1].type = "srt"
  /\ \E k \in 1..Len(docs[1].cues) :
       /\ docs[1].cues[k].index = 0
       /\ EmittedFor(built, k) = Num(k)


\* The format build is to pick: the format option if given, otherwise the
\* type of the document if it is a subtitle format, otherwise plain text.
FormatToPick(doc, opts) ==
  IF opts.format # "" THEN opts.format
  ELSE IF doc.type \in Formats THEN doc.type
  ELSE "text"

\* The format a generated text shows: WebVTT text starts with the header,
\* SRT text has timestamp lines under no header, plain text has neither.
FormatShown(text) ==
  IF text[1].k = "webvtt" THEN "vtt"
  ELSE IF \E k \in 1..Len(text) : HasArrow(text[k]) THEN "srt"
  ELSE "text"

\* C29: build gives its output the format of the format option if there is
\* one, otherwise the type of the input document, otherwise plain text; and
\* a bare string as second argument gives what the options object with that
\* format gives.
C29_FormatPicked ==
  (pc \in {"built", "converted"}) =>
    /\ result.cues # <<>> => FormatShown(built) = FormatToPick(result, options)
    /\ FormatShown(built) = "vtt" <=> FormatToPick(result, options) = "vtt"
    /\ options.legacy =>
         built = buildFrom(result, OptionsObject(options.format, FALSE))

\* C29's case: build, given a bare string, has generated a format that is
\* not the type of its input document.
C29_Witness ==
  /\ pc = "converted"
  /\ options.legacy
  /\ result.cues # <<>>
  /\ result.type \in {"srt", "vtt"}
  /\ result.type # options.format
  /\ FormatShown(built) = options.format


\* What the entry point of the call returns for the arguments of the call,
\* computed from the arguments alone.
OfArguments ==
  IF entry = "parse" THEN parse(content, preserveIndexes)
  ELSE IF entry = "parseSRT" THEN parseSRT(content, preserveIndexes)
  ELSE parseVTT(content, preserveIndexes)

\* C24: the result of a call depends only on the arguments of that call:
\* whatever calls came before it and whatever they left behind, the parsers
\* return what they return for these arguments alone, and build returns what
\* it returns for the document and the options given.
C24_ResultOfArgumentsOnly ==
  /\ (pc = "returned" /\ Len(docs) = 1) => docs[1] = OfArguments
  /\ pc \in {"built", "converted"} => built = buildFrom(result, options)

\* C24's case: a call of parseVTT has returned a document without
\* diagnostics although the locals of the parsers held, when it started,
\* the diagnostics of a call before it.
C24_Witness ==
  /\ pc = "returned" /\ Len(docs) = 1
  /\ entry = "parseVTT"
  /\ docs[1].cues # <<>> /\ docs[1].errors = <<>>
  /\ failedParses > 0


\* parseVTTTimestamp has been called on a percentage and is over.
PercentParsed ==
  entry = "parseVTTTimestamp" /\ timestamp.k = "percent"
  /\ pc \in {"returned", "thrown"}

\* C30: a percentage timestamp p% with 0 <= p <= 100 parses to p * 864000
\* milliseconds, and a percentage outside [0, 100] fails to parse.
C30_PercentageOfDay ==
  PercentParsed =>
    /\ pc = "thrown" <=> (timestamp.v < 0 \/ timestamp.v > 100)
    /\ pc = "returned" =>
         milliseconds = [whole |-> timestamp.v * 864000, fraction |-> FALSE]

\* parseVTTTimestamp returned, for 5%, a number that is no whole number of
\* milliseconds: 4320000 and a fraction.
C30_FractionReturned ==
  /\ PercentParsed /\ pc = "returned"
  /\ timestamp.v = 5
  /\ milliseconds = [whole |-> 4320000, fraction |-> TRUE]


\* parseSRT stands, empty lines skipped, at a line that is no accepted index
\* line and no timestamp line: it has no arrow and no timestamp in it.
AtUnattributedLine ==
  /\ pc = "srt" /\ i < Len(lines) /\ ~stop
  /\ SrtLineAt < Len(lines)
  /\ ~IsIndexLine(lines, SrtLineAt)
  /\ ~HasArrow(At(lines, SrtLineAt))
  /\ ~hasTimestamp(At(lines, SrtLineAt))

\* The pass leaves state s with one diagnostic more, the error 'Invalid
\* subtitle format' on the line of s, no cue more, and the cursor on the
\* first digits-only line under that line, or at the end of L.
InvalidLinePass(L, s, r) ==
  /\ r.errors = Append(s.errors, Diag(s.i + 1, "Invalid subtitle format", "error", 0))
  /\ r.cues = s.cues
  /\ r.i > s.i
  /\ r.i = Len(L) \/ IsDigits(At(L, r.i))
  /\ \A m \in (s.i + 1)..(r.i - 1) : ~IsDigits(At(L, m))

\* C34: on a line that is neither blank, an accepted index line nor a
\* timestamp line, parseSRT emits one 'Invalid subtitle format' error and
\* skips forward to the next digits-only line or the end of the input, and
\* the lines it skips produce no cue.
C34_InvalidLineSkipped ==
  AtUnattributedLine =>
    InvalidLinePass(lines, SrtSkipEmpty(lines, SrtLocals),
                    SrtPass(lines, preserveIndexes, SrtLocals))

\* C34's case: parseSRT stands at such a line, and the lines down to the
\* next digits-only line have a timestamp line among them.
C34_Witness ==
  /\ AtUnattributedLine
  /\ \E m \in (SrtLineAt + 1)..(Len(lines) - 2) :
       /\ HasArrow(At(lines, m))
       /\ SrtPass(lines, preserveIndexes, SrtLocals).i > m
       /\ SrtPass(lines, preserveIndexes, SrtLocals).i < Len(lines)


\* parseSRT stands, empty lines skipped, at a timestamp line of which it
\* reads at least one time: the pass collects the text of a cue.
SrtCollects ==
  /\ pc = "srt" /\ i < Len(lines) /\ ~stop
  /\ SrtBranch(lines, SrtLocals) = "timestamp"
  /\ findTimestampRange(At(lines, SrtLineAt)) # [start |-> NaN, end |-> NaN]

\* Line j of L is one of the three lines that end a cue: a digits-only line
\* followed by a line with a timestamp, an arrow line that starts with an
\* ellipsis, or an arrow line met while text is still empty.
EndsCue(L, j, text) ==
  \/ IsDigits(At(L, j)) /\ j + 1 < Len(L) /\ hasTimestamp(At(L, j + 1))
  \/ HasArrow(At(L, j)) /\ StartsWithEllipsis(At(L, j))
  \/ HasArrow(At(L, j)) /\ text = <<>>

\* The text of the cue whose timestamp line is line at of L, when the
\* collection has stopped at line to: the words after the end timestamp and
\* every line in between.
TextUpTo(L, at, to) ==
  TextAfterTimestamp(At(L, at)) \o [m \in 1..(to - at - 1) |-> At(L, at + m)]

\* The line parseSRT stops the collection at, in a state of SrtCollects.
SrtStopsAt == SrtPass(lines, preserveIndexes, SrtLocals).i

\* C35: while parseSRT collects a cue's text, a non-blank line ends the cue
\* only if it is a digits-only line followed by a line with a timestamp, an
\* arrow line that starts with an ellipsis, or an arrow line met before any
\* text was collected; every other non-blank line, a timestamp-like line
\* after text has started among them, is appended to the text.
C35_TextBoundaries ==
  SrtCollects =>
    LET r == SrtPass(lines, preserveIndexes, SrtLocals)
        text == TextUpTo(lines, SrtLineAt, r.i)
    IN /\ r.i > SrtLineAt /\ r.i <= Len(lines)
       /\ \A m \in (SrtLineAt + 1)..(r.i - 1) : ~IsBlank(At(lines, m))
       /\ IF text = <<>>
            THEN r.cues = cues
            ELSE /\ Len(r.cues) = Len(cues) + 1
                 /\ r.cues[Len(r.cues)].text = text
       /\ r.i < Len(lines) /\ ~IsBlank(At(lines, r.i)) => EndsCue(lines, r.i, text)

\* C35's case: a timestamp-like line after text has started is appended to
\* the text of the cue.
C35_Witness ==
  /\ SrtCollects
  /\ \E m \in (SrtLineAt + 2)..(SrtStopsAt - 1) :
       HasArrow(At(lines, m)) /\ hasTimestamp(At(lines, m))


\* parseVTT stands at a cue block whose timestamp line parses on both
\* sides: the pass collects the text of a cue.
VttCollects ==
  /\ pc = "vtt" /\ i < Len(lines) /\ ~stop
  /\ VttBranch(lines, VttLocals) = "cue"

\* The line parseVTT stops the collection at, in a state of VttCollects.
VttStopsAt == VttPass(lines, preserveIndexes, VttLocals).i

\* C36: parseVTT's text collection stops at the same boundaries as
\* parseSRT's: a digits-only line ends the cue text only when a timestamp
\* line follows it, and otherwise stays part of the cue text.
C36_DigitsBoundary ==
  VttCollects /\ VttStopsAt < Len(lines) /\ IsDigits(At(lines, VttStopsAt)) =>
    /\ VttStopsAt + 1 < Len(lines)
    /\ hasTimestamp(At(lines, VttStopsAt + 1))

\* parseVTT ends the text of a cue at a digits-only line that no timestamp
\* line follows, where parseSRT's collection from the same line goes on.
C36_NumberEndsText ==
  /\ VttCollects
  /\ VttStopsAt < Len(lines)
  /\ IsDigits(At(lines, VttStopsAt))
  /\ ~IsIndexLine(lines, VttStopsAt)
  /\ LET t == TimestampIndex(lines, i)
     IN /\ SrtCollectText(lines, t + 1, <<>>).i > VttStopsAt
        /\ VttPass(lines, preserveIndexes, VttLocals).cues[Len(cues) + 1].text
             = [m \in 1..(VttStopsAt - t - 1) |-> At(lines, t + m)]


\* C38: for every integer ms from 0 to 359,999,999, the SRT timestamp
\* parser returns ms for the SRT rendering of ms, the VTT timestamp parser
\* returns ms for the VTT rendering of ms, and the VTT rendering has no hours
\* field exactly when ms < 3,600,000.
C38_RenderedAndReadBack ==
  /\ pc # "thrown"
  /\ pc = "returned" => milliseconds = [whole |-> time, fraction |-> FALSE]
  /\ pc = "formatted" /\ entry = "formatVTTTimestamp" =>
       /\ Len(timestamp.f) \in 2..3
       /\ Len(timestamp.f) = 2 <=> time < 3600000

\* C38's case: the VTT parser has returned the time of a rendering without
\* hours, and of one with hours; the SRT parser that of 99:59:59,999.
C38_Witness ==
  /\ pc = "returned"
  /\ milliseconds.whole = time
  /\ \/ entry = "formatVTTTimestamp" /\ Len(timestamp.f) = 2 /\ time = 3599999
     \/ entry = "formatVTTTimestamp" /\ Len(timestamp.f) = 3 /\ time = 3600000
     \/ entry = "formatTimestamp" /\ time = UnusualLimit


\* C37: shiftTime, scaleTime, mergeOverlapping, generateSRT, generateVTT and
\* build leave the cue list they are given, and every cue object in it,
\* unchanged: after the call the array has the elements it had, and every
\* object there was has the fields and values it had.
C37_ArgumentsUnchanged ==
  pc = "called" =>
    /\ given = before.cues
    /\ Len(heap) >= Len(before.heap)
    /\ \A k \in 1..Len(before.heap) : heap[k] = before.heap[k]

\* C37's case: mergeOverlapping has joined two cues of the list it was
\* given into one, which ends later than the first of them did and has the
\* text of both.
C37_Witness ==
  /\ pc = "called"
  /\ entry = "mergeOverlapping"
  /\ Len(out) < Len(given)
  /\ \E k \in 1..Len(given) :
       /\ heap[out[1]].startTime = heap[given[k]].startTime
       /\ heap[out[1]].endTime > heap[given[k]].endTime
       /\ Len(heap[out[1]].text) > Len(heap[given[k]].text)


\* C31: resync, that is shiftTime, with offset 0 returns for every cue it is
\* given a cue with the start time and the end time of that cue.
C31_ResyncByZero ==
  pc = "called" /\ entry = "resync" /\ options.offset = 0 =>
    /\ Len(out) = Len(given)
    /\ \A k \in 1..Len(out) :
         /\ heap[out[k]].startTime = heap[given[k]].startTime
         /\ heap[out[k]].endTime = heap[given[k]].endTime

\* resync with offset 0, called on the cues of a parsed document, has
\* returned a cue that ends a millisecond after it starts for a cue that did
\* not end after its start.
C31_EndMovedByZero ==
  /\ pc = "called" /\ entry = "resync" /\ options.offset = 0
  /\ calls = 1
  /\ \E k \in 1..Len(out) :
       /\ heap[given[k]].endTime <= heap[given[k]].startTime
       /\ heap[out[k]].startTime = heap[given[k]].startTime
       /\ heap[out[k]].endTime = heap[given[k]].startTime + 1

\* The cue has an original field.
HasOriginal(cue) == "original" \in DOMAIN cue

\* The object o of the array a call was given and the object n of the array
\* it returned for it: an original that o has is the original of n; an
\* original that n has and o had not holds the times of o; and without an
\* original n has the times of o.
OriginalCarried(o, n) ==
  IF HasOriginal(o) THEN HasOriginal(n) /\ n.original = o.original
  ELSE IF HasOriginal(n)
    THEN n.original = [startTime |-> o.startTime, endTime |-> o.endTime]
  ELSE n.startTime = o.startTime /\ n.endTime = o.endTime

\* A call of shiftTime, scaleTime or fixTimings is made in the step.
TimingCall ==
  /\ calls' = calls + 1
  /\ entry' \in {"shiftTime", "resync", "scaleTime", "fixTimings"}

\* C32: the cues that come straight from parseSRT or parseVTT have no
\* original field; and in every call of shiftTime, scaleTime or fixTimings
\* the original a cue has is kept as it is, and a cue without one gets none
\* and keeps its times, or gets one that holds the start and end it had
\* before the call.  So through any sequence of these calls the original,
\* once set, holds the times from before the first call that changed the cue.
C32_OriginalKept ==
  /\ [](calls = 0 => \A k \in 1..Len(heap) : ~HasOriginal(heap[k]))
  /\ [][TimingCall =>
          /\ Len(out') = Len(out)
          /\ \A k \in 1..Len(out') : \A j \in 1..Len(out) :
               heap'[out'[k]].index = heap[out[j]].index =>
                 OriginalCarried(heap[out[j]], heap'[out'[k]])]_vars

\* C32's case: a second call has changed the times of a cue that already
\* had an original, and the original is still the one it had.
C32_Witness ==
  /\ pc = "called" /\ calls >= 2
  /\ entry \in {"shiftTime", "scaleTime", "fixTimings"}
  /\ \E k \in 1..Len(out) : \E j \in 1..Len(given) :
       /\ heap[out[k]].index = heap[given[j]].index
       /\ HasOriginal(heap[given[j]])
       /\ heap[out[k]].startTime # heap[given[j]].startTime
       /\ heap[out[k]].original = heap[given[j]].original
       /\ heap[out[k]].original.startTime # heap[given[j]].startTime

\* C33: mergeOverlapping returns cues sorted by start time, each of which
\* starts strictly after the one before it ends, with the indexes 1..n in
\* that order.
C33_MergedApart ==
  pc = "called" /\ entry = "mergeOverlapping" =>
    \A k \in 1..Len(out) :
      /\ heap[out[k]].index = k
      /\ k > 1 => /\ heap[out[k - 1]].startTime <= heap[out[k]].startTime
                  /\ heap[out[k]].startTime > heap[out[k - 1]].endTime

\* C33's case: mergeOverlapping was given cues out of order, has joined
\* some of them and returned more than one cue.
C33_Witness ==
  /\ pc = "called" /\ entry = "mergeOverlapping"
  /\ Len(out) >= 2
  /\ Len(out) < Len(given)
  /\ \E k \in 2..Len(given) :
       heap[given[k]].startTime < heap[given[k - 1]].startTime

====
